---- MODULE Spec2Model ----
(***************************************************************************)
(* A model of drivly/workers.                                              *)
(*                                                                         *)
(* Part 1: durable-objects-nosql (src/durable-objects-nosql/src/types/     *)
(* index.ts): the documents table, the Collection operations, the cursor,  *)
(* the predicate evaluator and the mutation applier.                       *)
(*                                                                         *)
(* JavaScript values are tagged records, so that values of different       *)
(* types can be compared.  A field path is the sequence of segments that   *)
(* path.split('.') produces.  An object whose key order is observable      *)
(* (a query, an update, a sort spec) is the sequence of its entries in     *)
(* Object.entries order; a stored document is a function from keys to      *)
(* values.                                                                 *)
(***************************************************************************)
EXTENDS Integers, Sequences, FiniteSets, TLC

----------------------------------------------------------------------------
(* JavaScript values *)

Undef == [t |-> "undefined"]
Null == [t |-> "null"]
Num(n) == [t |-> "number", n |-> n]
Str(s) == [t |-> "string", s |-> s]
Bool(b) == [t |-> "boolean", b |-> b]
Arr(a) == [t |-> "array", a |-> a]
Obj(o) == [t |-> "object", o |-> o]

EmptyObj == Obj(<<>>)

IsObj(v) == v.t = "object"
IsArr(v) == v.t = "array"
IsNum(v) == v.t = "number"
IsStr(v) == v.t = "string"

\* Array.isArray(v)
IsArray(v) == IsArr(v)

\* JavaScript truthiness, as used by `x || d` and `if (x)`
Truthy(v) ==
  CASE v.t = "undefined" -> FALSE
    [] v.t = "null" -> FALSE
    [] v.t = "number" -> v.n # 0
    [] v.t = "string" -> v.s # ""
    [] v.t = "boolean" -> v.b
    [] OTHER -> TRUE

\* a || d
OrElse(a, d) == IF Truthy(a) THEN a ELSE d

\* The strings the model orders; the rank is their position in code-unit order.
StrOrder ==
  <<"", "[object Object]", "a", "b", "c", "t1", "t2",
    "u1", "u2", "u3", "u4", "u5", "x">>

StrRank(s) == CHOOSE i \in 1..Len(StrOrder) : StrOrder[i] = s

\* ToPrimitive of an operand of < : an object becomes "[object Object]", an
\* array the join of its elements (here: the empty array and the array of one
\* string; longer arrays are not among the operands the model compares).
ToPrimitive(v) ==
  CASE IsObj(v) -> Str("[object Object]")
    [] IsArr(v) /\ v.a = <<>> -> Str("")
    [] IsArr(v) /\ Len(v.a) = 1 /\ IsStr(v.a[1]) -> v.a[1]
    [] OTHER -> v

\* ToNumber of a primitive: [nan, n]
ToNumber(v) ==
  CASE v.t = "number" -> [nan |-> FALSE, n |-> v.n]
    [] v.t = "null" -> [nan |-> FALSE, n |-> 0]
    [] v.t = "boolean" -> [nan |-> FALSE, n |-> IF v.b THEN 1 ELSE 0]
    [] v.t = "string" /\ v.s = "" -> [nan |-> FALSE, n |-> 0]
    [] OTHER -> [nan |-> TRUE, n |-> 0]

\* a < b : two strings are compared by code units; otherwise both operands
\* are converted to numbers, and a comparison with NaN is false.
JsLess(a, b) ==
  LET pa == ToPrimitive(a)
      pb == ToPrimitive(b)
  IN IF IsStr(pa) /\ IsStr(pb) THEN StrRank(pa.s) < StrRank(pb.s)
     ELSE /\ ~ToNumber(pa).nan /\ ~ToNumber(pb).nan
          /\ ToNumber(pa).n < ToNumber(pb).n

\* a <= b
JsLessEq(a, b) ==
  LET pa == ToPrimitive(a)
      pb == ToPrimitive(b)
  IN IF IsStr(pa) /\ IsStr(pb) THEN StrRank(pa.s) <= StrRank(pb.s)
     ELSE /\ ~ToNumber(pa).nan /\ ~ToNumber(pb).nan
          /\ ToNumber(pa).n <= ToNumber(pb).n

\* a === b : arrays and objects are compared by reference; the operands of a
\* query and the values of a decoded document are never the same reference.
StrictEq(a, b) ==
  CASE IsArr(a) \/ IsObj(a) \/ IsArr(b) \/ IsObj(b) -> FALSE
    [] OTHER -> a = b

\* a + b of the $inc operator, on numbers.  A non-numeric truthy operand makes
\* JavaScript concatenate strings; that result is outside the value universe
\* and is represented by one token.
JsAdd(a, b) ==
  IF IsNum(a) /\ IsNum(b) THEN Num(a.n + b.n) ELSE Str("<concatenated>")

\* `const r = v` followed by a body that reads r: v is evaluated once
Bind(v, Body(_)) == Body(v)

\* typeof v
TypeOf(v) ==
  CASE v.t = "null" -> "object"
    [] v.t = "array" -> "object"
    [] OTHER -> v.t

----------------------------------------------------------------------------
(* Payload encoding: JSON.stringify / JSON.parse *)

RECURSIVE JsonTree(_)
\* The JSON tree of a value: undefined-valued properties are dropped,
\* undefined array elements become null.
JsonTree(v) ==
  CASE IsObj(v) ->
         Obj([k \in {f \in DOMAIN v.o : v.o[f] # Undef} |-> JsonTree(v.o[k])])
    [] IsArr(v) ->
         Arr([i \in DOMAIN v.a |-> IF v.a[i] = Undef THEN Null ELSE JsonTree(v.a[i])])
    [] OTHER -> v

\* JSON.stringify(v): the text, represented by the tree it denotes
JSONstringify(v) == [json |-> JsonTree(v)]

\* JSON.parse(text)
JSONparse(text) == text.json

----------------------------------------------------------------------------
(* Path Accessor *)

\* current[part]
Prop(current, part) ==
  IF IsObj(current) /\ part \in DOMAIN current.o THEN current.o[part] ELSE Undef

\* `part in current`, defined on objects and arrays (a TypeError otherwise)
HasProp(current, part) == IsObj(current) /\ part \in DOMAIN current.o

\* current with current[part] = value
WithProp(current, part, value) ==
  Obj([k \in DOMAIN current.o \cup {part} |->
         IF k = part THEN value ELSE current.o[k]])

\* current with `delete current[part]`
WithoutProp(current, part) ==
  Obj([k \in DOMAIN current.o \ {part} |-> current.o[k]])

RECURSIVE getNestedProperty(_, _)
getNestedProperty(obj, path) ==
  IF path = <<>> THEN obj
  ELSE IF obj = Null \/ obj = Undef THEN Undef
  ELSE getNestedProperty(Prop(obj, Head(path)), Tail(path))

RECURSIVE setNestedProperty(_, _, _)
\* The object after setNestedProperty(obj, path, value), or a TypeError
\* (`in` applied to, or a property assigned on, a value that is no object).
setNestedProperty(obj, path, value) ==
  IF ~(IsObj(obj) \/ IsArr(obj)) THEN [threw |-> TRUE, obj |-> obj]
  ELSE IF IsArr(obj) THEN
    \* a named property of an array: kept on the array object, lost by JSON
    IF Len(path) = 1 THEN [threw |-> FALSE, obj |-> obj]
    ELSE [threw |-> TRUE, obj |-> obj]
  ELSE IF Len(path) = 1 THEN [threw |-> FALSE, obj |-> WithProp(obj, path[1], value)]
  ELSE
    LET part == Head(path)
        child == IF HasProp(obj, part) THEN obj.o[part] ELSE EmptyObj
        sub == setNestedProperty(child, Tail(path), value)
    IN IF sub.threw
       THEN [threw |-> TRUE,
             obj |-> IF HasProp(obj, part) THEN obj ELSE WithProp(obj, part, EmptyObj)]
       ELSE [threw |-> FALSE, obj |-> WithProp(obj, part, sub.obj)]

RECURSIVE deleteNestedProperty(_, _)
\* The object after deleteNestedProperty(obj, path), or a TypeError (`in`
\* applied to a primitive, or `delete` applied to null or undefined).
deleteNestedProperty(obj, path) ==
  IF Len(path) = 1 THEN
    IF obj = Null \/ obj = Undef THEN [threw |-> TRUE, obj |-> obj]
    ELSE IF IsObj(obj) THEN [threw |-> FALSE, obj |-> WithoutProp(obj, path[1])]
    ELSE [threw |-> FALSE, obj |-> obj]
  ELSE IF ~(IsObj(obj) \/ IsArr(obj)) THEN [threw |-> TRUE, obj |-> obj]
  ELSE
    LET part == Head(path)
    IN IF ~HasProp(obj, part) THEN [threw |-> FALSE, obj |-> obj]
       ELSE LET sub == deleteNestedProperty(obj.o[part], Tail(path))
            IN [threw |-> sub.threw,
                obj |-> IF sub.threw THEN obj ELSE WithProp(obj, part, sub.obj)]

----------------------------------------------------------------------------
(* Predicate Evaluator *)

\* The outcome of an evaluation that may raise
RTrue == [threw |-> FALSE, ok |-> TRUE]
RFalse == [threw |-> FALSE, ok |-> FALSE]
RThrow == [threw |-> TRUE, ok |-> FALSE]
RBool(b) == IF b THEN RTrue ELSE RFalse
RNot(r) == IF r.threw THEN RThrow ELSE RBool(~r.ok)

\* The value of a query entry: a literal, a mapping of operators to operands
\* (in Object.entries order), or a sequence of sub-queries.
QLit(v) == [q |-> "lit", v |-> v]
QOps(ops) == [q |-> "ops", ops |-> ops]
QList(qs) == [q |-> "list", qs |-> qs]
\* An element of a sequence of sub-queries: a query, or a value that is none
SubQ(q) == [sq |-> "query", q |-> q]
SubV(v) == [sq |-> "value", v |-> v]
QEntry(key, val) == [key |-> key, val |-> val]
OpEntry(op, arg) == [op |-> op, arg |-> arg]

\* The $-prefixed keys of the model's queries: key.startsWith('$')
DollarKeys == {"$and", "$or", "$nor", "$not", "$foo"}
StartsWithDollar(key) == key # <<>> /\ key[1] \in DollarKeys

\* new RegExp(pattern).test(value) on the patterns and strings of the model
RegExpTest(pattern, value) ==
  CASE pattern = Str("^t") -> IsStr(value) /\ value.s \in {"t1", "t2"}
    [] pattern = Str("a") -> IsStr(value) /\ value.s \in {"a"}
    [] OTHER -> FALSE

\* includes testing the first element only
IncludesFirst(a, value) == a # <<>> /\ StrictEq(a[1], value)

\* Array.prototype.includes(value)
Includes(a, value) == \E i \in DOMAIN a : StrictEq(a[i], value)

\* The operand of $not read as the value of the query entry {value: operand}
NotOperand(operatorValue) ==
  IF "q" \in DOMAIN operatorValue THEN operatorValue ELSE QLit(operatorValue)

RECURSIVE matchesQuery(_, _)
RECURSIVE matchesOperator(_, _, _)
RECURSIVE matchesEntries(_, _, _)
RECURSIVE matchesOps(_, _, _)
RECURSIVE everySub(_, _, _)
RECURSIVE someSub(_, _, _)

\* this.matchesQuery(document, subQuery) for an element of $and/$or/$nor:
\* Object.entries raises on null and undefined, and is empty for a number,
\* a boolean and the empty string.
matchesSub(document, sub) ==
  IF sub.sq = "query" THEN matchesQuery(document, sub.q)
  ELSE IF sub.v = Null \/ sub.v = Undef THEN RThrow
  ELSE IF IsStr(sub.v) /\ sub.v.s # "" THEN RFalse
  ELSE RTrue

\* value.every((subQuery) => this.matchesQuery(document, subQuery))
everySub(document, subs, i) ==
  IF i > Len(subs) THEN RTrue
  ELSE Bind(matchesSub(document, subs[i]), LAMBDA r :
         IF r.threw THEN RThrow
         ELSE IF ~r.ok THEN RFalse
         ELSE everySub(document, subs, i + 1))

\* value.some((subQuery) => this.matchesQuery(document, subQuery))
someSub(document, subs, i) ==
  IF i > Len(subs) THEN RFalse
  ELSE Bind(matchesSub(document, subs[i]), LAMBDA r :
         IF r.threw THEN RThrow
         ELSE IF r.ok THEN RTrue
         ELSE someSub(document, subs, i + 1))

\* The sub-queries of an operand for which Array.isArray holds
SubsOf(val) ==
  IF val.q = "list" THEN val.qs ELSE [i \in DOMAIN val.v.a |-> SubV(val.v.a[i])]

IsArrayOperand(val) == val.q = "list" \/ (val.q = "lit" /\ IsArr(val.v))

\* The loop over the operators returning at its first operator
matchesOpsFirstOnly(docValue, ops, i) ==
  IF i > Len(ops) THEN RTrue
  ELSE matchesOperator(docValue, ops[i].op, ops[i].arg)

\* for (const [op, opValue] of Object.entries(value)) ...
matchesOps(docValue, ops, i) ==
  IF i > Len(ops) THEN RTrue
  ELSE Bind(matchesOperator(docValue, ops[i].op, ops[i].arg), LAMBDA r :
         IF r.threw THEN RThrow
         ELSE IF ~r.ok THEN RFalse
         ELSE matchesOps(docValue, ops, i + 1))

\* One entry of the query: RTrue stands for `break` / fall through
matchesEntry(document, key, val) ==
  IF StartsWithDollar(key) THEN
    CASE key = <<"$and">> ->
           IF ~IsArrayOperand(val) THEN RFalse ELSE everySub(document, SubsOf(val), 1)
      [] key = <<"$or">> ->
           IF ~IsArrayOperand(val) THEN RFalse ELSE someSub(document, SubsOf(val), 1)
      [] key = <<"$nor">> ->
           IF ~IsArrayOperand(val) THEN RFalse
           ELSE RNot(someSub(document, SubsOf(val), 1))
      [] OTHER -> RFalse
  ELSE
    LET docValue == getNestedProperty(document, key)
    IN CASE val.q = "ops" -> matchesOps(docValue, val.ops, 1)
         \* an array: its entries are its indices, no operator
         [] val.q = "list" -> RBool(val.qs = <<>>)
         [] val.q = "lit" /\ IsArr(val.v) -> RBool(val.v.a = <<>>)
         \* a literal object: its keys are taken as operators
         [] val.q = "lit" /\ IsObj(val.v) -> RBool(DOMAIN val.v.o = {})
         [] OTHER -> matchesOperator(docValue, "$eq", val.v)

matchesEntries(document, query, i) ==
  IF i > Len(query) THEN RTrue
  ELSE Bind(matchesEntry(document, query[i].key, query[i].val), LAMBDA r :
         IF r.threw THEN RThrow
         ELSE IF ~r.ok THEN RFalse
         ELSE matchesEntries(document, query, i + 1))

matchesQuery(document, query) == matchesEntries(document, query, 1)

matchesOperator(value, operator, operatorValue) ==
  CASE operator = "$eq" -> RBool(StrictEq(value, operatorValue))
    [] operator = "$gt" -> RBool(JsLess(operatorValue, value))
    [] operator = "$gte" -> RBool(JsLessEq(operatorValue, value))
    [] operator = "$lt" -> RBool(JsLess(value, operatorValue))
    [] operator = "$lte" -> RBool(JsLessEq(value, operatorValue))
    [] operator = "$ne" -> RBool(~StrictEq(value, operatorValue))
    [] operator = "$in" ->
         RBool(IsArray(operatorValue) /\ Includes(operatorValue.a, value))
    [] operator = "$nin" ->
         RBool(IsArray(operatorValue) /\ ~Includes(operatorValue.a, value))
    [] operator = "$not" ->
         RNot(matchesQuery(Obj([k \in {"value"} |-> value]),
                           <<QEntry(<<"value">>, NotOperand(operatorValue))>>))
    [] operator = "$exists" ->
         RBool(IF Truthy(operatorValue) THEN value # Undef ELSE value = Undef)
    [] operator = "$type" -> RBool(Str(TypeOf(value)) = operatorValue)
    [] operator = "$regex" -> RBool(RegExpTest(operatorValue, value))
    [] OTHER -> RFalse
----------------------------------------------------------------------------
(* Mutation Applier *)

\* An update is the sequence of its [op, fields] entries; fields is the
\* sequence of its [path, value] entries.
UEntry(op, fields) == [op |-> op, fields |-> fields]
FEntry(path, value) == [path |-> path, value |-> value]

Done(obj) == [threw |-> FALSE, obj |-> obj]
Thrown(obj) == [threw |-> TRUE, obj |-> obj]

\* currentValue.slice(-1) in place of slice(0, -1)
SliceKeepLast(a) == SubSeq(a, Len(a), Len(a))

\* currentValue.slice(0, -1)
SliceDropLast(a) == SubSeq(a, 1, Len(a) - 1)
\* currentValue.slice(1)
SliceDropFirst(a) == SubSeq(a, 2, Len(a))

RECURSIVE KeepFrom(_, _, _)
KeepFrom(a, S, i) ==
  IF i > Len(a) THEN <<>>
  ELSE IF i \in S THEN <<a[i]>> \o KeepFrom(a, S, i + 1)
  ELSE KeepFrom(a, S, i + 1)

\* The elements of a at the positions in S, in order: Array.prototype.filter
Keep(a, S) == KeepFrom(a, S, 1)

\* The operand of $pull read as the value of the query entry {item: value}
PullOperand(value) == IF "q" \in DOMAIN value THEN value ELSE QLit(value)

\* this.matchesQuery({ item }, { item: value })
PullMatches(item, value) ==
  matchesQuery(Obj([k \in {"item"} |-> item]),
               <<QEntry(<<"item">>, PullOperand(value))>>)

\* One [field, value] entry of one operator, applied to result
applyField(result, operator, field, value) ==
  CASE operator = "$set" -> setNestedProperty(result, field, value)
    [] operator = "$unset" -> deleteNestedProperty(result, field)
    [] operator = "$inc" ->
         LET currentValue == OrElse(getNestedProperty(result, field), Num(0))
         IN setNestedProperty(result, field, JsAdd(currentValue, value))
    [] operator = "$push" ->
         LET currentValue == OrElse(getNestedProperty(result, field), Arr(<<>>))
         IN IF ~IsArray(currentValue) THEN Thrown(result)
            ELSE setNestedProperty(result, field, Arr(Append(currentValue.a, value)))
    [] operator = "$pull" ->
         LET currentValue == getNestedProperty(result, field)
         IN IF ~IsArray(currentValue) THEN Thrown(result)
            ELSE Bind([i \in DOMAIN currentValue.a |->
                         PullMatches(currentValue.a[i], value)], LAMBDA m :
                   IF \E i \in DOMAIN m : m[i].threw THEN Thrown(result)
                   ELSE setNestedProperty(result, field,
                          Arr(Keep(currentValue.a, {i \in DOMAIN m : ~m[i].ok}))))
    [] operator = "$addToSet" ->
         LET currentValue == OrElse(getNestedProperty(result, field), Arr(<<>>))
         IN IF ~IsArray(currentValue) THEN Thrown(result)
            ELSE IF ~Includes(currentValue.a, value)
            THEN setNestedProperty(result, field, Arr(Append(currentValue.a, value)))
            ELSE Done(result)
    [] operator = "$pop" ->
         LET currentValue == getNestedProperty(result, field)
         IN IF ~IsArray(currentValue) THEN Thrown(result)
            ELSE IF value = Num(1)
            THEN setNestedProperty(result, field, Arr(SliceDropLast(currentValue.a)))
            ELSE IF value = Num(-1)
            THEN setNestedProperty(result, field, Arr(SliceDropFirst(currentValue.a)))
            ELSE Done(result)
    [] OTHER -> Done(result)

RECURSIVE applyFields(_, _, _, _)
\* for (const [field, value] of Object.entries(fields)) ...
applyFields(result, operator, fields, i) ==
  IF i > Len(fields) THEN Done(result)
  ELSE Bind(applyField(result, operator, fields[i].path, fields[i].value), LAMBDA r :
         IF r.threw THEN r ELSE applyFields(r.obj, operator, fields, i + 1))

RECURSIVE applyOperators(_, _, _)
\* for (const [operator, fields] of Object.entries(update)) ...
applyOperators(result, update, i) ==
  IF i > Len(update) THEN Done(result)
  ELSE Bind(applyFields(result, update[i].op, update[i].fields, 1), LAMBDA r :
         IF r.threw THEN r ELSE applyOperators(r.obj, update, i + 1))

\* applyUpdate(document, update): [threw, obj], obj the returned document
applyUpdate(document, update) == applyOperators(document, update, 1)

\* `const result = { ...document }` copies the top level only: a nested object
\* of result is the nested object of document until result[key] is assigned.
\* The state of a run is [threw, obj, input, shared]: the result so far, the
\* input document as it is now, and the top-level keys still shared.

\* The entry assigned or deleted result[field] at the top level
Reassigned(result, operator, field, value, r) ==
  /\ Len(field) = 1
  /\ ~r.threw
  /\ CASE operator \in {"$set", "$unset", "$inc", "$push", "$pull"} -> TRUE
       [] operator = "$addToSet" ->
            ~Includes(OrElse(getNestedProperty(result, field), Arr(<<>>)).a, value)
       [] operator = "$pop" -> value \in {Num(1), Num(-1)}
       [] OTHER -> FALSE

\* One [field, value] entry applied to result, seen from the input document:
\* a dotted path through a shared key writes into the input's nested object
aliasField(st, operator, field, value) ==
  Bind(applyField(st.obj, operator, field, value), LAMBDA r :
    [threw |-> r.threw,
     obj |-> r.obj,
     input |-> IF Len(field) >= 2 /\ field[1] \in st.shared /\ HasProp(r.obj, field[1])
               THEN WithProp(st.input, field[1], r.obj.o[field[1]])
               ELSE st.input,
     shared |-> IF Reassigned(st.obj, operator, field, value, r)
                THEN st.shared \ {field[1]}
                ELSE st.shared])

RECURSIVE aliasFields(_, _, _, _)
aliasFields(st, operator, fields, i) ==
  IF i > Len(fields) THEN st
  ELSE Bind(aliasField(st, operator, fields[i].path, fields[i].value), LAMBDA r :
         IF r.threw THEN r ELSE aliasFields(r, operator, fields, i + 1))

RECURSIVE aliasOperators(_, _, _)
aliasOperators(st, update, i) ==
  IF i > Len(update) THEN st
  ELSE Bind(aliasFields(st, update[i].op, update[i].fields, 1), LAMBDA r :
         IF r.threw THEN r ELSE aliasOperators(r, update, i + 1))

\* The input document after applyUpdate(document, update) has run
inputAfter(document, update) ==
  aliasOperators([threw |-> FALSE, obj |-> document, input |-> document,
                  shared |-> DOMAIN document.o], update, 1).input

----------------------------------------------------------------------------
(* The documents table behind storage.sql.exec.  The table is the sequence  *)
(* of its rows in scan order (the order of insertion); a row is             *)
(* [id, collection, data], data the JSON text.                              *)

\* INSERT INTO documents (id, collection, data) VALUES (?, ?, ?)
\* id is the PRIMARY KEY: a second row with the same id is rejected.
SqlInsert(t, id, collection, data) ==
  IF \E i \in DOMAIN t : t[i].id = id
  THEN [threw |-> TRUE, table |-> t]
  ELSE [threw |-> FALSE,
        table |-> Append(t, [id |-> id, collection |-> collection, data |-> data])]

\* UPDATE documents SET data = ? WHERE id = ? AND collection = ?
SqlUpdate(t, data, id, collection) ==
  [i \in DOMAIN t |->
     IF t[i].id = id /\ t[i].collection = collection
     THEN [t[i] EXCEPT !.data = data]
     ELSE t[i]]

\* DELETE FROM documents WHERE id = ?
SqlDeleteAnyCollection(t, id, collection) ==
  SelectSeq(t, LAMBDA r : r.id # id)

\* DELETE FROM documents WHERE id = ? AND collection = ?
SqlDelete(t, id, collection) ==
  SelectSeq(t, LAMBDA r : ~(r.id = id /\ r.collection = collection))

\* SELECT * FROM documents WHERE collection = ?
SqlSelect(t, collection) == SelectSeq(t, LAMBDA r : r.collection = collection)

\* storage.transaction(closure): the writes of a closure that rejects are
\* rolled back, and the rejection is passed on.  pre is the table when the
\* closure starts, out the closure's outcome.
transaction(pre, out) ==
  IF out.threw THEN [out EXCEPT !.table = pre] ELSE out

\* crypto.randomUUID(): the n-th identifier of a generator that never repeats
UuidPool == <<"u1", "u2", "u3", "u4", "u5", "u6">>
randomUUID(n) == Str(UuidPool[n])

----------------------------------------------------------------------------
(* Result Cursor *)

\* A sort spec is an object written with the entries [key, direction] in
\* this order.
SEntry(key, direction) == [key |-> key, direction |-> direction]
SortSpec(entries) == [t |-> "object", e |-> entries]

\* The array index a property name denotes ('0', '1', '2'), or -1.  A sort
\* key is held as the path key.split('.') gives.
ArrayIndex(key) ==
  IF Len(key) # 1 THEN -1
  ELSE CASE key[1] = "0" -> 0
         [] key[1] = "1" -> 1
         [] key[1] = "2" -> 2
         [] OTHER -> -1

RECURSIVE IndexEntries(_, _)
\* The entries at positions S, by ascending array index
IndexEntries(entries, S) ==
  IF S = {} THEN <<>>
  ELSE LET i == CHOOSE i \in S :
                  \A j \in S : ArrayIndex(entries[i].key) <= ArrayIndex(entries[j].key)
       IN <<entries[i]>> \o IndexEntries(entries, S \ {i})

\* Object.entries(sortSpec) of an object written with entries in this order:
\* the array-index keys by ascending index, then the others as written
ObjectEntries(entries) ==
  LET indices == {i \in DOMAIN entries : ArrayIndex(entries[i].key) >= 0}
  IN IndexEntries(entries, indices) \o Keep(entries, DOMAIN entries \ indices)

RECURSIVE compareDocs(_, _, _, _)
\* The comparator of toArray: negative, zero or positive
compareDocs(a, b, sortSpec, i) ==
  IF i > Len(sortSpec) THEN 0
  ELSE LET valueA == getNestedProperty(a, sortSpec[i].key)
           valueB == getNestedProperty(b, sortSpec[i].key)
       IN IF JsLess(valueA, valueB) THEN (-1) * sortSpec[i].direction
          ELSE IF JsLess(valueB, valueA) THEN sortSpec[i].direction
          ELSE compareDocs(a, b, sortSpec, i + 1)

RECURSIVE insertSorted(_, _, _)
\* x put after the last element that does not come after it
insertSorted(sorted, x, sortSpec) ==
  IF sorted = <<>> THEN <<x>>
  ELSE LET n == Len(sorted)
       IN IF compareDocs(sorted[n], x, sortSpec, 1) <= 0
          THEN Append(sorted, x)
          ELSE Append(insertSorted(SubSeq(sorted, 1, n - 1), x, sortSpec), sorted[n])

RECURSIVE sortDocs(_, _)
\* Array.prototype.sort with the comparator: a stable sort
sortDocs(docs, sortSpec) ==
  IF docs = <<>> THEN <<>>
  ELSE insertSorted(sortDocs(SubSeq(docs, 1, Len(docs) - 1), sortSpec),
                    docs[Len(docs)], sortSpec)

\* result.slice(n)
SliceFrom(a, n) == SubSeq(a, n + 1, Len(a))
\* result.slice(0, n)
SliceTo(a, n) == SubSeq(a, 1, IF n < Len(a) THEN n ELSE Len(a))

NoSort == Undef

\* CursorImpl.toArray on the cursor's documents and modifiers: the modifiers
\* are applied when they are truthy.
originalToArray(documents, sort, skip, limit) ==
  LET sorted == IF sort # NoSort THEN sortDocs(documents, ObjectEntries(sort.e))
                ELSE documents
      skipped == IF Truthy(skip) THEN SliceFrom(sorted, skip.n) ELSE sorted
  IN Arr(IF Truthy(limit) THEN SliceTo(skipped, limit.n) ELSE skipped)

----------------------------------------------------------------------------
(* Collection: the operations as functions of the table *)

\* getAllDocuments whose SELECT has no WHERE collection = ?
getAllDocumentsEveryCollection(t, collectionName) ==
  [i \in DOMAIN t |-> JSONparse(t[i].data)]

\* getAllDocuments(): every row of the collection, decoded
getAllDocuments(t, collectionName) ==
  LET rows == SqlSelect(t, collectionName)
  IN [i \in DOMAIN rows |-> JSONparse(rows[i].data)]

\* cursor._execute(): documents.filter((doc) => this.matchesQuery(doc, query))
execute(t, collectionName, query) ==
  Bind(getAllDocuments(t, collectionName), LAMBDA documents :
    Bind([i \in DOMAIN documents |-> matchesQuery(documents[i], query)], LAMBDA m :
      IF \E i \in DOMAIN m : m[i].threw
      THEN [threw |-> TRUE, documents |-> <<>>]
      ELSE [threw |-> FALSE,
            documents |-> Keep(documents, {i \in DOMAIN m : m[i].ok})]))

\* find(query, options): the new cursor.  options is not read by find.
\* scans counts the runs of _execute; wrote records a write since find.
find(collectionName, query, options) ==
  [collection |-> collectionName, query |-> query, options |-> options,
   documents |-> <<>>, cached |-> Undef,
   sort |-> NoSort, skip |-> Undef, limit |-> Undef,
   scans |-> 0, wrote |-> FALSE]

\* The guard of the toArray that find installs:
\* !cursor._documents || cursor._documents.length === 0
\* (cached is the cursor's _documents property, which nothing assigns)
needsExecute(c) == c.cached = Undef \/ c.cached = Arr(<<>>)

\* The toArray that find installs: [threw, cursor, result], result the array
toArray(t, c) ==
  IF needsExecute(c) THEN
    Bind(execute(t, c.collection, c.query), LAMBDA e :
      IF e.threw
      THEN [threw |-> TRUE, cursor |-> [c EXCEPT !.scans = @ + 1],
            result |-> Arr(<<>>)]
      ELSE [threw |-> FALSE,
            cursor |-> [c EXCEPT !.documents = e.documents, !.scans = @ + 1],
            result |-> originalToArray(e.documents, c.sort, c.skip, c.limit)])
  ELSE [threw |-> FALSE, cursor |-> c,
        result |-> originalToArray(c.documents, c.sort, c.skip, c.limit)]

\* first(): this.toArray() is the toArray that find installed
first(t, c) ==
  Bind(toArray(t, c), LAMBDA r :
    [threw |-> r.threw, cursor |-> r.cursor,
     result |-> IF Len(r.result.a) > 0 THEN r.result.a[1] ELSE Null])

\* count(): this.documents.length
count(c) == Num(Len(c.documents))

\* findOne(query): find(query).first()
findOne(t, collectionName, query) ==
  first(t, find(collectionName, query, Undef))

\* (document as any)._id
IdOf(document) == Prop(document, "_id")

\* The outcome of a call: whether it rejected, the table after it, its result
Outcome(threw, t, result) == [threw |-> threw, table |-> t, result |-> result]

\* insertOne(document), id the identifier crypto.randomUUID() returns
insertOne(t, collectionName, document, id) ==
  Bind(SqlInsert(t, id, collectionName,
                 JSONstringify(WithProp(document, "_id", id))), LAMBDA w :
    Outcome(w.threw, w.table, [id |-> id]))

RECURSIVE insertManyLoop(_, _, _, _, _, _, _)
\* insertMany's closure with ids.unshift(id) in place of ids.push(id)
insertManyLoopUnshift(t, collectionName, documents, ids, i, n, failAt) ==
  IF i > Len(documents) THEN [threw |-> FALSE, table |-> t, ids |-> ids]
  ELSE Bind(SqlInsert(t, randomUUID(n + i), collectionName,
                      JSONstringify(WithProp(documents[i], "_id", randomUUID(n + i)))),
            LAMBDA w :
         IF failAt = i \/ w.threw THEN [threw |-> TRUE, table |-> t, ids |-> ids]
         ELSE insertManyLoop(w.table, collectionName, documents,
                             <<randomUUID(n + i)>> \o ids, i + 1, n, failAt))

\* The closure of insertMany from the i-th document on.  n is the number of
\* identifiers generated before the call; the failAt-th write is rejected by
\* the storage (0: none).
insertManyLoop(t, collectionName, documents, ids, i, n, failAt) ==
  IF i > Len(documents) THEN [threw |-> FALSE, table |-> t, ids |-> ids]
  ELSE Bind(SqlInsert(t, randomUUID(n + i), collectionName,
                      JSONstringify(WithProp(documents[i], "_id", randomUUID(n + i)))),
            LAMBDA w :
         IF failAt = i \/ w.threw THEN [threw |-> TRUE, table |-> t, ids |-> ids]
         ELSE insertManyLoop(w.table, collectionName, documents,
                             Append(ids, randomUUID(n + i)), i + 1, n, failAt))

\* insertMany(documents)
insertMany(t, collectionName, documents, n, failAt) ==
  Bind(transaction(t, insertManyLoop(t, collectionName, documents, <<>>, 1, n, failAt)),
       LAMBDA out : Outcome(out.threw, out.table, [ids |-> out.ids]))

UpdateResult(matched, modified) ==
  [matchedCount |-> matched, modifiedCount |-> modified]

\* The rest of updateOne, with the stored document of the same identifier
\* read again in place of the document findOne returned
updateOneWriteRereading(t, collectionName, document, update) ==
  IF document = Null THEN Outcome(FALSE, t, UpdateResult(0, 0))
  ELSE Bind(applyUpdate(JSONparse(t[CHOOSE i \in DOMAIN t :
                                      /\ t[i].id = IdOf(document)
                                      /\ t[i].collection = collectionName].data),
                        update),
            LAMBDA updatedDocument :
         IF updatedDocument.threw THEN Outcome(TRUE, t, UpdateResult(0, 0))
         ELSE Outcome(FALSE,
                      SqlUpdate(t, JSONstringify(updatedDocument.obj),
                                IdOf(document), collectionName),
                      UpdateResult(1, 1)))

\* updateOne after `await this.findOne(query)` has given it document: the
\* early return, applyUpdate and the UPDATE statement on the table as it is
\* then
updateOneWrite(t, collectionName, document, update) ==
  IF document = Null THEN Outcome(FALSE, t, UpdateResult(0, 0))
  ELSE Bind(applyUpdate(document, update), LAMBDA updatedDocument :
         IF updatedDocument.threw THEN Outcome(TRUE, t, UpdateResult(0, 0))
         ELSE Outcome(FALSE,
                      SqlUpdate(t, JSONstringify(updatedDocument.obj),
                                IdOf(document), collectionName),
                      UpdateResult(1, 1)))

\* updateOne that writes the document applyUpdate had reached when it raised
updateOneIgnoringError(t, collectionName, query, update) ==
  Bind(findOne(t, collectionName, query), LAMBDA f :
    IF f.threw THEN Outcome(TRUE, t, UpdateResult(0, 0))
    ELSE IF f.result = Null THEN Outcome(FALSE, t, UpdateResult(0, 0))
    ELSE Bind(applyUpdate(f.result, update), LAMBDA updatedDocument :
           Outcome(FALSE,
                   SqlUpdate(t, JSONstringify(updatedDocument.obj),
                             IdOf(f.result), collectionName),
                   UpdateResult(1, 1))))

\* updateOne(query, update) with no other call between its findOne and its
\* UPDATE statement
updateOne(t, collectionName, query, update) ==
  Bind(findOne(t, collectionName, query), LAMBDA f :
    IF f.threw THEN Outcome(TRUE, t, UpdateResult(0, 0))
    ELSE updateOneWrite(t, collectionName, f.result, update))

RECURSIVE updateManyLoop(_, _, _, _, _, _, _)
\* The closure of updateMany from the i-th matched document on
updateManyLoop(t, collectionName, documents, update, i, modifiedCount, failAt) ==
  IF i > Len(documents)
  THEN [threw |-> FALSE, table |-> t, modifiedCount |-> modifiedCount]
  ELSE Bind(applyUpdate(documents[i], update), LAMBDA updatedDocument :
         IF updatedDocument.threw \/ failAt = i
         THEN [threw |-> TRUE, table |-> t, modifiedCount |-> modifiedCount]
         ELSE updateManyLoop(
                SqlUpdate(t, JSONstringify(updatedDocument.obj),
                          IdOf(documents[i]), collectionName),
                collectionName, documents, update, i + 1, modifiedCount + 1, failAt))

\* updateMany whose writes are not undone when the closure rejects
updateManyUngrouped(t, collectionName, query, update, failAt) ==
  Bind(toArray(t, find(collectionName, query, Undef)), LAMBDA r :
    IF r.threw \/ Len(r.result.a) = 0 THEN Outcome(r.threw, t, UpdateResult(0, 0))
    ELSE Bind(updateManyLoop(t, collectionName, r.result.a, update, 1, 0, failAt),
              LAMBDA out :
           Outcome(out.threw, out.table,
                   UpdateResult(Len(r.result.a), out.modifiedCount))))

\* updateMany(query, update)
updateMany(t, collectionName, query, update, failAt) ==
  Bind(toArray(t, find(collectionName, query, Undef)), LAMBDA r :
    IF r.threw \/ Len(r.result.a) = 0 THEN Outcome(r.threw, t, UpdateResult(0, 0))
    ELSE Bind(transaction(t, updateManyLoop(t, collectionName, r.result.a, update,
                                            1, 0, failAt)),
              LAMBDA out :
           Outcome(out.threw, out.table,
                   UpdateResult(Len(r.result.a), out.modifiedCount))))

\* deleteOne after `await this.findOne(query)` has given it document: the
\* early return and the DELETE statement on the table as it is then
deleteOneDelete(t, collectionName, document) ==
  IF document = Null THEN Outcome(FALSE, t, [deletedCount |-> 0])
  ELSE Outcome(FALSE, SqlDelete(t, IdOf(document), collectionName),
               [deletedCount |-> 1])

\* deleteOne(query) with no other call between its findOne and its DELETE
\* statement
deleteOne(t, collectionName, query) ==
  Bind(findOne(t, collectionName, query), LAMBDA f :
    IF f.threw THEN Outcome(TRUE, t, [deletedCount |-> 0])
    ELSE deleteOneDelete(t, collectionName, f.result))

RECURSIVE deleteManyLoop(_, _, _, _, _, _)
\* The closure of deleteMany from the i-th matched document on
deleteManyLoop(t, collectionName, documents, i, deletedCount, failAt) ==
  IF i > Len(documents)
  THEN [threw |-> FALSE, table |-> t, deletedCount |-> deletedCount]
  ELSE IF failAt = i
  THEN [threw |-> TRUE, table |-> t, deletedCount |-> deletedCount]
  ELSE deleteManyLoop(SqlDelete(t, IdOf(documents[i]), collectionName),
                      collectionName, documents, i + 1, deletedCount + 1, failAt)

\* deleteMany(query)
deleteMany(t, collectionName, query, failAt) ==
  Bind(toArray(t, find(collectionName, query, Undef)), LAMBDA r :
    IF r.threw \/ Len(r.result.a) = 0 THEN Outcome(r.threw, t, [deletedCount |-> 0])
    ELSE Bind(transaction(t, deleteManyLoop(t, collectionName, r.result.a, 1, 0, failAt)),
              LAMBDA out :
           Outcome(out.threw, out.table, [deletedCount |-> out.deletedCount])))

----------------------------------------------------------------------------
(* Bounds and inputs *)

\* identifiers generated in one behaviour
MaxUuids == 3
\* largest value of the field v that $inc may reach
MaxValue == 2
\* identifiers generated in one behaviour of the cursor's caller
MaxCursorUuids == 2
\* terminal calls that scan, per cursor
MaxScans == 2
\* documents of one insertMany
MaxBatch == 2

Collections == {"A", "B"}

DocV1 == Obj([k \in {"v"} |-> Num(1)])
DocV2 == Obj([k \in {"v", "tags"} |-> IF k = "v" THEN Num(2) ELSE Arr(<<Str("t1")>>)])
DocInputs == {DocV1, DocV2}

RECURSIVE SeqsUpTo(_, _)
\* The sequences over S of length 1..n
SeqsUpTo(S, n) ==
  IF n = 0 THEN {}
  ELSE {<<x>> : x \in S} \cup SeqsUpTo(S, n - 1)
       \cup {Append(q, x) : q \in SeqsUpTo(S, n - 1), x \in S}

BatchInputs == SeqsUpTo(DocInputs, MaxBatch)

\* {}
QueryAll == <<>>
\* {v: {$gt: 1}}
QueryGt1 == <<QEntry(<<"v">>, QOps(<<OpEntry("$gt", Num(1))>>))>>
\* {v: 1}
QueryEq1 == <<QEntry(<<"v">>, QLit(Num(1)))>>
QueryInputs == {QueryAll, QueryGt1, QueryEq1}

\* {$inc: {v: 1}}
UpdateInc == <<UEntry("$inc", <<FEntry(<<"v">>, Num(1))>>)>>
\* {$set: {_id: 'u1'}}
UpdateSetId == <<UEntry("$set", <<FEntry(<<"_id">>, Str("u1"))>>)>>
\* {$pop: {tags: 1}}
UpdatePop == <<UEntry("$pop", <<FEntry(<<"tags">>, Num(1))>>)>>
UpdateInputs == {UpdateInc, UpdateSetId, UpdatePop}

NoOptions == [sort |-> NoSort, skip |-> Undef, limit |-> Undef]
SortInputs == {SortSpec(<<SEntry(<<"v">>, 1)>>), SortSpec(<<SEntry(<<"v">>, -1)>>)}
OptionInputs ==
  {NoOptions,
   [NoOptions EXCEPT !.sort = SortSpec(<<SEntry(<<"v">>, -1)>>), !.limit = Num(1)]}
\* the arguments of skip() and limit()
PageInputs == {1, 2}

----------------------------------------------------------------------------
(* State *)

VARIABLES
  table,    \* the rows of the documents table, in scan order
  uuids,    \* the number of identifiers crypto.randomUUID has returned
  cursor,   \* the cursor the caller holds, or NoCursor
  last,     \* the last call that ended: its arguments, the table before it,
            \* and its outcome
  calls,    \* the updateOne calls that are suspended at an await, by caller
  facade,   \* the store facade: its memoized collection handles
  cron,     \* the cron object: its storage, its alarm and the clock
  deploy,   \* the deployWorker call: the stages invoked and its result
  upload,   \* the deployToCloudflare call: its attempts and its outcome
  running   \* the calls on the cron object that are suspended at an await

vars == <<table, uuids, cursor, last, calls, facade, cron, deploy, upload, running>>

NoCursor == [open |-> FALSE]

NoCall ==
  [op |-> "none", collection |-> "", query |-> <<>>, update |-> <<>>,
   documents |-> <<>>, failAt |-> 0, pre |-> <<>>, threw |-> FALSE,
   result |-> Undef, input |-> Undef]

\* The callers whose updateOne calls may overlap
Callers == {1, 2}

\* A caller's updateOne: where it is (not called, awaiting findOne, awaiting
\* the UPDATE statement, settled), its arguments, the document findOne gave
\* it, and its outcome
NotCalled ==
  [pc |-> "none", op |-> "none", query |-> <<>>, update |-> <<>>,
   document |-> Undef, threw |-> FALSE, result |-> Undef, affected |-> 0]

NoCalls == [p \in Callers |-> NotCalled]

\* new DurableObjectsNoSQL(storage): `collections` is an empty Map.  refs
\* counts the CollectionImpl objects constructed; got is the sequence of
\* values the caller has been handed, each with the name asked for.
NoCollections == [collections |-> <<>>, refs |-> 0, got |-> <<>>]

\* getAlarm() gives null: no alarm is set
NoAlarm == 0

\* No call on the cron object has ended since the caller took the last result
NoCronCall ==
  [op |-> "none", id |-> <<>>, cronExpr |-> "", now |-> 0, pre |-> <<>>,
   invoked |-> <<>>, threw |-> {}, result |-> Undef]

\* The cron object's storage at time 0, before its constructor has run
NoTasks ==
  [clock |-> 0, built |-> FALSE,
   options |-> [defaultHandler |-> "undefined", handlers |-> <<>>],
   storage |-> <<>>, alarm |-> NoAlarm, uuids |-> 0, scheduled |-> 0,
   call |-> NoCronCall]

\* deployWorker has not been called
NotDeploying == [pc |-> "none"]

\* deployToCloudflare has not been called
NotUploading == [pc |-> "none"]

\* No alarm(), schedule() or cancel() is suspended.  alarm: the time it
\* began, the due tasks it read, where the callback of each is, the task
\* each failed callback has read again, and the alarm time it has computed;
\* schedule and cancel: the task or id and what the call has read;
\* cancelled: the ids cancel() has returned true for with no schedule()
\* of the id since
NotRunning ==
  [alarm |-> [pc |-> "none", now |-> 0, tasks |-> <<>>, at |-> <<>>,
              current |-> <<>>, next |-> 0],
   schedule |-> [pc |-> "none", task |-> Null, currentAlarm |-> 0,
                 during |-> {}],
   cancel |-> [pc |-> "none", id |-> <<>>, exists |-> FALSE, next |-> 0,
               rescheduled |-> FALSE, inHandler |-> FALSE],
   cancels |-> 0,
   cancelled |-> {}]

Init ==
  /\ table = <<>>
  /\ uuids = 0
  /\ cursor = NoCursor
  /\ last = NoCall
  /\ calls = NoCalls
  /\ facade = NoCollections
  /\ cron = NoTasks
  /\ deploy = NotDeploying
  /\ upload = NotUploading
  /\ running = NotRunning

\* The field v of every stored document is a number within the bound
ValueBound(t) ==
  \A i \in DOMAIN t :
    LET v == getNestedProperty(JSONparse(t[i].data), <<"v">>)
    IN IsNum(v) => v.n <= MaxValue

\* A write ended: a cursor held by the caller has seen a write since find
Wrote == cursor' = IF cursor = NoCursor THEN cursor ELSE [cursor EXCEPT !.wrote = TRUE]

\* No call is in progress and the last result has been handed to the caller
Idle == last = NoCall

\* The caller takes the result of the call that ended
Return ==
  /\ last # NoCall
  /\ last' = NoCall
  /\ UNCHANGED <<table, uuids, cursor, calls, facade, cron, deploy, upload, running>>

\* The record of a call with its arguments
Call(op, collectionName) == [NoCall EXCEPT !.op = op, !.collection = collectionName]

\* A call ends with outcome r: its writes are in the table, and the caller
\* holds its result or its rejection
Ends(call, r) ==
  /\ ValueBound(r.table)
  /\ table' = r.table
  /\ last' = [call EXCEPT !.pre = table, !.threw = r.threw, !.result = r.result]
  /\ Wrote
  /\ UNCHANGED <<calls, facade, cron, deploy, upload, running>>

\* The identifiers an insertMany that ended with r has taken
UuidsTaken(r) == Len(r.result.ids) + (IF r.threw THEN 1 ELSE 0)

----------------------------------------------------------------------------
(* Collection operations, each called with no other call in progress *)

InsertOne(collectionName, document) ==
  /\ Idle
  /\ uuids < MaxUuids
  /\ Ends([Call("insertOne", collectionName) EXCEPT !.documents = <<document>>],
          insertOne(table, collectionName, document, randomUUID(uuids + 1)))
  /\ uuids' = uuids + 1

InsertMany(collectionName, documents, failAt) ==
  /\ Idle
  /\ uuids + Len(documents) <= MaxUuids
  /\ failAt <= Len(documents)
  /\ Ends([Call("insertMany", collectionName)
             EXCEPT !.documents = documents, !.failAt = failAt],
          insertMany(table, collectionName, documents, uuids, failAt))
  /\ uuids' = uuids + UuidsTaken(last')

UpdateOne(collectionName, query, update) ==
  /\ Idle
  /\ Ends([Call("updateOne", collectionName) EXCEPT !.query = query, !.update = update],
          updateOne(table, collectionName, query, update))
  /\ UNCHANGED uuids

UpdateMany(collectionName, query, update, failAt) ==
  /\ Idle
  /\ failAt <= Len(execute(table, collectionName, query).documents)
  /\ Ends([Call("updateMany", collectionName)
             EXCEPT !.query = query, !.update = update, !.failAt = failAt],
          updateMany(table, collectionName, query, update, failAt))
  /\ UNCHANGED uuids

DeleteOne(collectionName, query) ==
  /\ Idle
  /\ Ends([Call("deleteOne", collectionName) EXCEPT !.query = query],
          deleteOne(table, collectionName, query))
  /\ UNCHANGED uuids

DeleteMany(collectionName, query, failAt) ==
  /\ Idle
  /\ failAt <= Len(execute(table, collectionName, query).documents)
  /\ Ends([Call("deleteMany", collectionName) EXCEPT !.query = query, !.failAt = failAt],
          deleteMany(table, collectionName, query, failAt))
  /\ UNCHANGED uuids

\* The collection the calls below are made on; the other collection only
\* receives documents.
Own == "A"

NextCollection ==
  \/ \E c \in Collections, d \in DocInputs : InsertOne(c, d)
  \/ \E ds \in BatchInputs, f \in 0..MaxBatch : InsertMany(Own, ds, f)
  \/ \E q \in QueryInputs, u \in UpdateInputs : UpdateOne(Own, q, u)
  \/ \E q \in QueryInputs, u \in UpdateInputs, f \in 0..MaxUuids : UpdateMany(Own, q, u, f)
  \/ \E q \in QueryInputs : DeleteOne(Own, q)
  \/ \E q \in QueryInputs, f \in 0..MaxUuids : DeleteMany(Own, q, f)
  \/ Return

\* The collection operations alone
Spec == Init /\ [][NextCollection]_vars

----------------------------------------------------------------------------
(* Cursor operations *)

\* A terminal call on the cursor ends with outcome r
CursorEnds(op, r) ==
  /\ cursor' = r.cursor
  /\ last' = [Call(op, cursor.collection)
               EXCEPT !.query = cursor.query, !.pre = table,
                      !.threw = r.threw, !.result = r.result]
  /\ UNCHANGED <<calls, facade, cron, deploy, upload, running>>

\* a find that scans the collection as it is called
FindScanning(collectionName, query, options) ==
  /\ Idle
  /\ cursor' = [find(collectionName, query, options) EXCEPT
                  !.documents = execute(table, collectionName, query).documents,
                  !.cached = Arr(execute(table, collectionName, query).documents)]
  /\ UNCHANGED <<table, uuids, last, calls, facade, cron, deploy, upload, running>>

\* collection.find(query, options)
Find(collectionName, query, options) ==
  /\ Idle
  /\ cursor' = find(collectionName, query, options)
  /\ UNCHANGED <<table, uuids, last, calls, facade, cron, deploy, upload, running>>

\* cursor.sort(sortSpec)
Sort(sortSpec) ==
  /\ Idle
  /\ cursor # NoCursor
  /\ cursor' = [cursor EXCEPT !.sort = sortSpec]
  /\ UNCHANGED <<table, uuids, last, calls, facade, cron, deploy, upload, running>>

\* cursor.skip(n)
Skip(n) ==
  /\ Idle
  /\ cursor # NoCursor
  /\ cursor' = [cursor EXCEPT !.skip = Num(n)]
  /\ UNCHANGED <<table, uuids, last, calls, facade, cron, deploy, upload, running>>

\* cursor.limit(n)
Limit(n) ==
  /\ Idle
  /\ cursor # NoCursor
  /\ cursor' = [cursor EXCEPT !.limit = Num(n)]
  /\ UNCHANGED <<table, uuids, last, calls, facade, cron, deploy, upload, running>>

\* await cursor.toArray()
ToArray ==
  /\ Idle
  /\ cursor # NoCursor
  /\ cursor.scans < MaxScans
  /\ CursorEnds("toArray", toArray(table, cursor))
  /\ UNCHANGED <<table, uuids>>

\* await cursor.first()
First ==
  /\ Idle
  /\ cursor # NoCursor
  /\ cursor.scans < MaxScans
  /\ CursorEnds("first", first(table, cursor))
  /\ UNCHANGED <<table, uuids>>

\* await cursor.count()
Count ==
  /\ Idle
  /\ cursor # NoCursor
  /\ CursorEnds("count", [threw |-> FALSE, cursor |-> cursor, result |-> count(cursor)])
  /\ UNCHANGED <<table, uuids>>

NextCursor ==
  \/ \E c \in Collections, d \in DocInputs : uuids < MaxCursorUuids /\ InsertOne(c, d)
  \/ \E q \in QueryInputs : DeleteOne(Own, q)
  \/ \E q \in QueryInputs, o \in OptionInputs : Find(Own, q, o)
  \/ \E s \in SortInputs : Sort(s)
  \/ \E n \in PageInputs : Skip(n)
  \/ \E n \in PageInputs : Limit(n)
  \/ ToArray
  \/ First
  \/ Count
  \/ Return

\* A caller that inserts and deletes single documents and reads through one cursor
SpecCursor == Init /\ [][NextCursor]_vars

----------------------------------------------------------------------------
(* The predicate evaluator on its own: matchesQuery applied to a document   *)
(* and a query                                                              *)

\* Documents: a number, a nested object, a string, a null intermediate
MatchDocs ==
  {Obj([k \in {"v"} |-> Num(1)]),
   Obj([k \in {"v", "a"} |-> IF k = "v" THEN Num(2) ELSE Obj([j \in {"b"} |-> Num(1)])]),
   Obj([k \in {"v", "a"} |-> IF k = "v" THEN Str("a") ELSE Null]),
   Obj([k \in {"a"} |-> Obj([j \in {"b"} |-> Null])]),
   EmptyObj}

PathInputs == {<<"v">>, <<"a", "b">>, <<"w", "x">>}
OperandInputs == {Num(1), Num(2), Str("a"), Null}
CompareOps == {"$eq", "$gt", "$gte", "$lt", "$lte", "$ne"}

\* Values of a query entry: a literal, one operator, two operators
CompareValues ==
  {QLit(x) : x \in OperandInputs}
  \cup {QOps(<<OpEntry(o, x)>>) : o \in CompareOps, x \in OperandInputs}
  \cup {QOps(<<OpEntry(o1, x1), OpEntry(o2, x2)>>) :
          o1 \in {"$gte", "$ne"}, o2 \in {"$lt", "$eq"},
          x1 \in {Num(1), Num(2)}, x2 \in {Num(1), Num(2)}}

FewCompareValues ==
  {QLit(x) : x \in {Num(1), Num(2), Null}}
  \cup {QOps(<<OpEntry(o, x)>>) : o \in {"$gte", "$ne"}, x \in {Num(1), Num(2)}}

\* Queries of comparisons: one or two fields
CompareQueries ==
  {<<QEntry(path, val)>> : path \in PathInputs, val \in CompareValues}
  \cup {<<QEntry(<<"v">>, val1), QEntry(<<"a", "b">>, val2)>> :
          val1 \in FewCompareValues, val2 \in FewCompareValues}

LogicalKeys == {"$and", "$or", "$nor"}
SubQueryInputs == {SubQ(QueryEq1), SubQ(QueryGt1), SubQ(QueryAll)}

RECURSIVE SeqsFrom0(_, _)
\* The sequences over S of length 0..n
SeqsFrom0(S, n) ==
  IF n = 0 THEN {<<>>}
  ELSE SeqsFrom0(S, n - 1) \cup {Append(q, x) : q \in SeqsFrom0(S, n - 1), x \in S}

\* largest number of sub-queries of one $and/$or/$nor
MaxSubs == 2

\* {$and: [...]}, {$or: [...]}, {$nor: [...]} over sub-queries
LogicalQueries ==
  {<<QEntry(<<k>>, QList(subs))>> :
     k \in LogicalKeys, subs \in SeqsFrom0(SubQueryInputs, MaxSubs)}

\* Operands of $and/$or/$nor that are no sequence: 1, null, 'a', {$gt: 1}
NonSequenceOperands ==
  {QLit(Num(1)), QLit(Null), QLit(Str("a")), QOps(<<OpEntry("$gt", Num(1))>>)}

\* Sequences holding an element that is no query: null, 5, 'x', true
BadSubLists ==
  {<<SubV(Null)>>, <<SubQ(QueryAll), SubV(Null)>>, <<SubV(Num(5))>>,
   <<SubV(Str("x"))>>, <<SubV(Bool(TRUE))>>}

MalformedQueries ==
  {<<QEntry(<<k>>, val)>> : k \in LogicalKeys, val \in NonSequenceOperands}
  \cup {<<QEntry(<<k>>, QList(subs))>> : k \in LogicalKeys, subs \in BadSubLists}
  \cup {<<QEntry(<<"$foo">>, QLit(Num(1)))>>,
        <<QEntry(<<"v">>, QOps(<<OpEntry("$bar", Num(1))>>))>>}

MatchQueries == CompareQueries \cup LogicalQueries \cup MalformedQueries

\* matchesQuery returns or raises: the caller holds the boolean or the error
MatchEnds(call, r) ==
  /\ last' = [call EXCEPT !.threw = r.threw,
                          !.result = IF r.threw THEN Undef ELSE Bool(r.ok)]
  /\ UNCHANGED <<table, uuids, cursor, calls, facade, cron, deploy, upload, running>>

\* this.matchesQuery(document, query)
MatchesQuery(document, query) ==
  /\ Idle
  /\ MatchEnds([Call("matchesQuery", "") EXCEPT !.documents = <<document>>,
                                                !.query = query],
               matchesQuery(document, query))

NextMatch ==
  \/ \E d \in MatchDocs, q \in MatchQueries : MatchesQuery(d, q)
  \/ Return

\* The predicate evaluator applied to one document and one query at a time
SpecMatch == Init /\ [][NextMatch]_vars

----------------------------------------------------------------------------
(* The mutation applier on its own: applyUpdate applied to a document and   *)
(* an update of one operator and one field                                  *)

TagsOf(tags) == Obj([k \in {"tags"} |-> tags])

\* Documents: tags a sequence, absent, a falsy or truthy non-sequence, nested
ApplyDocs ==
  {TagsOf(Arr(<<Str("t1"), Str("t2")>>)),
   TagsOf(Arr(<<Str("t1")>>)),
   EmptyObj,
   TagsOf(Num(0)), TagsOf(Str("")), TagsOf(Bool(FALSE)), TagsOf(Str("x")),
   Obj([k \in {"a"} |-> TagsOf(Arr(<<Str("t2"), Str("t1")>>))])}

UpdateOps == {"$set", "$unset", "$inc", "$push", "$pull", "$addToSet", "$pop"}
FieldInputs == {<<"tags">>, <<"a", "tags">>}
ValueInputs == {Str("t1"), Str("t2"), Num(1), Num(-1), Num(0)}

\* {op: {field: value}}
OneField(op, field, value) == <<UEntry(op, <<FEntry(field, value)>>)>>

ApplyUpdates ==
  {OneField(op, field, value) :
     op \in UpdateOps, field \in FieldInputs, value \in ValueInputs}

\* applyUpdate returns or raises: the caller holds the new document or the
\* error, and its own document as applyUpdate left it
ApplyEnds(call, r, after) ==
  /\ last' = [call EXCEPT !.threw = r.threw,
                          !.result = IF r.threw THEN Undef ELSE r.obj,
                          !.input = after]
  /\ UNCHANGED <<table, uuids, cursor, calls, facade, cron, deploy, upload, running>>

\* this.applyUpdate(document, update)
ApplyUpdate(document, update) ==
  /\ Idle
  /\ ApplyEnds([Call("applyUpdate", "") EXCEPT !.documents = <<document>>,
                                               !.update = update],
               applyUpdate(document, update), inputAfter(document, update))

NextApply ==
  \/ \E d \in ApplyDocs, u \in ApplyUpdates : ApplyUpdate(d, u)
  \/ Return

\* The mutation applier applied to one document and one update at a time
SpecApply == Init /\ [][NextApply]_vars

----------------------------------------------------------------------------
(* updateOne with the operators that take elements out of a sequence       *)

\* Documents: tags absent, tags a sequence, tags a string
ArrayDocs == {DocV1, DocV2, Obj([k \in {"v", "tags"} |-> IF k = "v" THEN Num(1) ELSE Str("x")])}

ArrayOps == {"$pull", "$pop"}

\* {$pull: {f: x}} and {$pop: {f: x}} for f tags or v, x 't1', 1 or -1
ArrayUpdates ==
  {OneField(op, field, value) :
     op \in ArrayOps, field \in {<<"tags">>, <<"v">>},
     value \in {Str("t1"), Num(1), Num(-1)}}

NextArrayUpdate ==
  \/ \E d \in ArrayDocs : InsertOne(Own, d)
  \/ \E q \in {QueryAll, QueryEq1}, u \in ArrayUpdates : UpdateOne(Own, q, u)
  \/ Return

SpecArrayUpdate == Init /\ [][NextArrayUpdate]_vars

----------------------------------------------------------------------------
(* A cursor read with a sort spec of one or two keys                        *)

\* {a: x, b: y}
DocAB(x, y) == Obj([k \in {"a", "b"} |-> IF k = "a" THEN Num(x) ELSE Num(y)])
\* {a: x, 1: y}
DocA1(x, y) == Obj([k \in {"a", "1"} |-> IF k = "a" THEN Num(x) ELSE Num(y)])

\* Documents: equal on a, equal on b, without a, with a field named 1
SortDocs ==
  {DocAB(1, 2), DocAB(1, 1), DocAB(2, 1), Obj([k \in {"b"} |-> Num(1)]),
   DocA1(1, 2), DocA1(2, 1)}

\* {a: 1}, {a: -1}, {a: 1, b: 1}, {b: -1, a: 1}, {a: 1, 1: 1}
SortSpecs ==
  {SortSpec(<<SEntry(<<"a">>, 1)>>),
   SortSpec(<<SEntry(<<"a">>, -1)>>),
   SortSpec(<<SEntry(<<"a">>, 1), SEntry(<<"b">>, 1)>>),
   SortSpec(<<SEntry(<<"b">>, -1), SEntry(<<"a">>, 1)>>),
   SortSpec(<<SEntry(<<"a">>, 1), SEntry(<<"1">>, 1)>>)}

NextSort ==
  \/ \E d \in SortDocs : InsertOne(Own, d)
  \/ Find(Own, QueryAll, NoOptions)
  \/ \E s \in SortSpecs : Sort(s)
  \/ ToArray
  \/ Return

\* A caller that inserts documents and reads them through a sorted cursor
SpecSort == Init /\ [][NextSort]_vars

----------------------------------------------------------------------------
(* updateOne calls that overlap: a call is suspended at                     *)
(* `await this.findOne(query)` and at `await this.storage.sql.exec(...)`,   *)
(* and the steps of another call run in between                             *)

\* The number of records of the collection a statement with
\* WHERE id = document._id AND collection = ? addresses
RowsAddressed(t, document) ==
  IF document = Null THEN 0
  ELSE Cardinality({i \in DOMAIN t :
                      t[i].id = IdOf(document) /\ t[i].collection = Own})

\* A caller calls updateOne(query, update): the call runs up to its first await
UpdateOneCalled(p, query, update) ==
  /\ calls[p].pc = "none"
  /\ calls' = [calls EXCEPT ![p] = [NotCalled EXCEPT !.pc = "findOne",
                                                      !.op = "updateOne",
                                                      !.query = query,
                                                      !.update = update]]
  /\ UNCHANGED <<table, uuids, cursor, last, facade, cron, deploy, upload, running>>

\* findOne scans the table and the call resumes with the document
UpdateOneFound(p) ==
  /\ calls[p].pc = "findOne"
  /\ LET f == findOne(table, Own, calls[p].query)
     IN calls' = [calls EXCEPT ![p] =
                    IF f.threw THEN [@ EXCEPT !.pc = "settled", !.threw = TRUE]
                    ELSE [@ EXCEPT !.pc = "write", !.document = f.result]]
  /\ UNCHANGED <<table, uuids, cursor, last, facade, cron, deploy, upload, running>>

\* The call applies the update to its document, runs the UPDATE statement
\* and settles
UpdateOneWritten(p) ==
  /\ calls[p].pc = "write"
  /\ LET r == updateOneWrite(table, Own, calls[p].document, calls[p].update)
     IN /\ table' = r.table
        /\ calls' = [calls EXCEPT ![p] =
                       [@ EXCEPT !.pc = "settled",
                                 !.threw = r.threw,
                                 !.result = r.result,
                                 !.affected = IF r.threw THEN 0
                                              ELSE RowsAddressed(table, calls[p].document)]]
  /\ UNCHANGED <<uuids, cursor, last, facade, cron, deploy, upload, running>>

NextRace ==
  \/ \E d \in DocInputs : uuids < MaxCursorUuids /\ InsertOne(Own, d)
  \/ Return
  \/ \E p \in Callers, q \in {QueryAll, QueryEq1}, u \in {UpdateInc, UpdatePop} :
       UpdateOneCalled(p, q, u)
  \/ \E p \in Callers : UpdateOneFound(p)
  \/ \E p \in Callers : UpdateOneWritten(p)

\* Two callers, each with one updateOne, and single inserts
SpecRace == Init /\ [][NextRace]_vars

\* A caller calls deleteOne(query): the call runs up to its first await
DeleteOneCalled(p, query) ==
  /\ calls[p].pc = "none"
  /\ calls' = [calls EXCEPT ![p] = [NotCalled EXCEPT !.pc = "findOneToDelete",
                                                      !.op = "deleteOne",
                                                      !.query = query]]
  /\ UNCHANGED <<table, uuids, cursor, last, facade, cron, deploy, upload, running>>

\* findOne scans the table and the deleteOne resumes with the document
DeleteOneFound(p) ==
  /\ calls[p].pc = "findOneToDelete"
  /\ LET f == findOne(table, Own, calls[p].query)
     IN calls' = [calls EXCEPT ![p] =
                    IF f.threw THEN [@ EXCEPT !.pc = "settled", !.threw = TRUE]
                    ELSE [@ EXCEPT !.pc = "delete", !.document = f.result]]
  /\ UNCHANGED <<table, uuids, cursor, last, facade, cron, deploy, upload, running>>

\* The call runs the DELETE statement and settles
DeleteOneDeleted(p) ==
  /\ calls[p].pc = "delete"
  /\ LET r == deleteOneDelete(table, Own, calls[p].document)
     IN /\ table' = r.table
        /\ calls' = [calls EXCEPT ![p] =
                       [@ EXCEPT !.pc = "settled",
                                 !.threw = r.threw,
                                 !.result = r.result,
                                 !.affected = RowsAddressed(table, calls[p].document)]]
  /\ UNCHANGED <<uuids, cursor, last, facade, cron, deploy, upload, running>>

NextCounts ==
  \/ \E d \in DocInputs : uuids < MaxCursorUuids /\ InsertOne(Own, d)
  \/ Return
  \/ \E p \in Callers, q \in {QueryAll, QueryEq1}, u \in {UpdateInc, UpdatePop} :
       UpdateOneCalled(p, q, u)
  \/ \E p \in Callers : UpdateOneFound(p)
  \/ \E p \in Callers : UpdateOneWritten(p)
  \/ \E p \in Callers, q \in {QueryAll, QueryEq1} : DeleteOneCalled(p, q)
  \/ \E p \in Callers : DeleteOneFound(p)
  \/ \E p \in Callers : DeleteOneDeleted(p)

\* Two callers, each with one updateOne or deleteOne, and single inserts
SpecCounts == Init /\ [][NextCounts]_vars

----------------------------------------------------------------------------
(* The store facade: DurableObjectsNoSQL, its collection() and the proxy    *)
(* of createNoSQLClient                                                     *)

\* A Map as the sequence of its entries [key, value] in insertion order
MapHas(m, key) == \E i \in DOMAIN m : m[i].key = key
MapGet(m, key) == m[CHOOSE i \in DOMAIN m : m[i].key = key].value
MapSet(m, key, value) ==
  IF MapHas(m, key)
  THEN [i \in DOMAIN m |-> IF m[i].key = key THEN [key |-> key, value |-> value] ELSE m[i]]
  ELSE Append(m, [key |-> key, value |-> value])

\* new CollectionImpl(this.storage, name): the ref-th object constructed
CollectionImpl(ref, name) == [t |-> "Collection", ref |-> ref, collectionName |-> name]

\* collection(name) that constructs a handle on every call
collectionAlwaysNew(f, name) ==
  [facade |-> [f EXCEPT !.collections = MapSet(@, name, CollectionImpl(f.refs + 1, name)),
                        !.refs = @ + 1],
   value |-> CollectionImpl(f.refs + 1, name)]

\* collection(name): [facade, value]
collection(f, name) ==
  LET g == IF ~MapHas(f.collections, name)
           THEN [f EXCEPT !.collections = MapSet(@, name, CollectionImpl(f.refs + 1, name)),
                          !.refs = @ + 1]
           ELSE f
  IN [facade |-> g, value |-> MapGet(g.collections, name)]

\* The names for which `prop in target` holds on a DurableObjectsNoSQL: its
\* fields, the members of its prototype and those of Object.prototype
MemberNames ==
  {"storage", "collections", "constructor", "collection", "initializeDatabase",
   "toString", "valueOf", "hasOwnProperty"}

\* (target as any)[prop] for such a name
Member(prop) == [t |-> "member", name |-> prop]

\* db[prop] on the object `new DurableObjectsNoSQL(storage)` gives
getProperty(f, prop) ==
  [facade |-> f, value |-> IF prop \in MemberNames THEN Member(prop) ELSE Undef]

\* handler.get(target, prop): db[prop] on the proxy createNoSQLClient gives
handlerGet(f, prop) ==
  IF prop \in MemberNames THEN [facade |-> f, value |-> Member(prop)]
  ELSE collection(f, prop)

\* values the caller is handed in one behaviour
MaxGot == 3

NameInputs == {"users", "blogPosts", "collections"}

\* The caller is handed r.value for name
Got(via, name, r) ==
  /\ facade' = [r.facade EXCEPT !.got = Append(@, [via |-> via, name |-> name,
                                                    value |-> r.value])]
  /\ UNCHANGED <<table, uuids, cursor, last, calls, cron, deploy, upload, running>>

\* db.collection(name)
Collection(name) ==
  /\ Len(facade.got) < MaxGot
  /\ Got("collection", name, collection(facade, name))

\* db[name], db = new DurableObjectsNoSQL(storage)
GetProperty(name) ==
  /\ Len(facade.got) < MaxGot
  /\ Got("property", name, getProperty(facade, name))

\* db[name], db = createNoSQLClient(storage)
ProxyGet(name) ==
  /\ Len(facade.got) < MaxGot
  /\ Got("proxy", name, handlerGet(facade, name))

NextFacade ==
  \/ \E n \in NameInputs : Collection(n)
  \/ \E n \in NameInputs : GetProperty(n)
  \/ \E n \in NameInputs : ProxyGet(n)

\* One store facade and a caller that asks it for collections
SpecFacade == Init /\ [][NextFacade]_vars

----------------------------------------------------------------------------
(* The cron object: CronDurableObject over its storage and alarm.  Time is  *)
(* counted in minutes; a task id and a handler prefix are sequences of      *)
(* characters.                                                              *)

\* 24 * 60 * 60 * 1000 ms, on the scale of the clock
Day == 3

\* '* * * * *' is due every minute, '*/2 * * * *' every second minute
CronPeriod(cronExpr) == IF cronExpr = "*/2 * * * *" THEN 2 ELSE 1

\* getNextCronTime(cron) called at time t: the first occurrence after t
getNextCronTime(cronExpr, t) == CronPeriod(cronExpr) * ((t \div CronPeriod(cronExpr)) + 1)

\* `task:${id}`
TaskKey(id) == [prefix |-> "task:", id |-> id, timestamp |-> 0]
\* `error:${id}:${timestamp}`
ErrorKey(id, timestamp) == [prefix |-> "error:", id |-> id, timestamp |-> timestamp]

\* obj with obj[k] = v
With(obj, k, v) == [x \in DOMAIN obj \cup {k} |-> IF x = k THEN v ELSE obj[x]]

\* {}
NoData == [x \in {} |-> 0]

\* obj[k] || 0
OrZero(obj, k) == IF k \in DOMAIN obj THEN obj[k] ELSE 0

\* storage.put(key, value) that keeps the entry the key had
storagePutBeside(storage, key, value) ==
  Append(storage, [key |-> key, value |-> value])

\* storage.put(key, value)
storagePut(storage, key, value) == MapSet(storage, key, value)

\* storage.get(key): the value, or Null
storageGet(storage, key) == IF MapHas(storage, key) THEN MapGet(storage, key) ELSE Null

\* storage.delete(key): [exists, storage]
storageDelete(storage, key) ==
  [exists |-> MapHas(storage, key),
   storage |-> SelectSeq(storage, LAMBDA e : e.key # key)]

\* listTasks(): the values of storage.list({ prefix: 'task:' })
listTasks(storage) ==
  LET entries == SelectSeq(storage, LAMBDA e : e.key.prefix = "task:")
  IN [i \in DOMAIN entries |-> entries[i].value]

\* getTask(id)
getTask(storage, id) == storageGet(storage, TaskKey(id))

\* getTasksDueBy(time) with the test `<` in place of `<=`
getTasksDueBefore(storage, time) ==
  SelectSeq(listTasks(storage), LAMBDA task : task.schedule.time < time)

\* getTasksDueBy(time)
getTasksDueBy(storage, time) ==
  SelectSeq(listTasks(storage), LAMBDA task : task.schedule.time <= time)

\* Math.min(...values) of a non-empty set
MathMin(values) == CHOOSE v \in values : \A w \in values : v <= w

\* getNextAlarmTime() called at time t
getNextAlarmTime(storage, t) ==
  LET tasks == listTasks(storage)
  IN IF Len(tasks) = 0 THEN t + Day
     ELSE MathMin({tasks[i].schedule.time : i \in DOMAIN tasks})

\* id.startsWith(prefix)
startsWith(id, prefix) ==
  Len(prefix) <= Len(id) /\ SubSeq(id, 1, Len(prefix)) = prefix

Digits == <<"0", "1", "2", "3", "4", "5", "6", "7", "8", "9">>

\* The digit a character is, or -1
DigitOf(ch) ==
  IF \E d \in DOMAIN Digits : Digits[d] = ch
  THEN (CHOOSE d \in DOMAIN Digits : Digits[d] = ch) - 1
  ELSE -1

RECURSIVE NumberOf(_, _)
\* The number the first n characters of a string of digits write
NumberOf(name, n) ==
  IF n = 0 THEN 0 ELSE 10 * NumberOf(name, n - 1) + DigitOf(name[n])

\* The array index a property name is ('0', '7', '10', not '07'), or -1
IndexOfName(name) ==
  IF /\ Len(name) > 0
     /\ \A i \in DOMAIN name : DigitOf(name[i]) >= 0
     /\ (Len(name) = 1 \/ name[1] # "0")
  THEN NumberOf(name, Len(name))
  ELSE -1

RECURSIVE IndexHandlers(_, _)
\* The entries at positions S, by ascending array index
IndexHandlers(handlers, S) ==
  IF S = {} THEN <<>>
  ELSE LET i == CHOOSE i \in S :
                  \A j \in S : IndexOfName(handlers[i].prefix) <= IndexOfName(handlers[j].prefix)
       IN <<handlers[i]>> \o IndexHandlers(handlers, S \ {i})

\* Object.entries(this.handlers) of an object written with the entries
\* [prefix, handler] in this order: array-index names first, ascending
HandlerEntries(handlers) ==
  LET indices == {i \in DOMAIN handlers : IndexOfName(handlers[i].prefix) >= 0}
  IN IndexHandlers(handlers, indices) \o Keep(handlers, DOMAIN handlers \ indices)

\* No handler: the defaultHandler that was not given
NoHandler == "undefined"

RECURSIVE firstPrefixHandler(_, _, _, _)
\* The loop over the entries from the i-th on: the handler of the first
\* prefix the id starts with, or handler
firstPrefixHandler(entries, id, i, handler) ==
  IF i > Len(entries) THEN handler
  ELSE IF startsWith(id, entries[i].prefix) THEN entries[i].handler
  ELSE firstPrefixHandler(entries, id, i + 1, handler)

\* The handler alarm() picks for a task with the defaultHandler ahead of
\* the prefixes
chooseHandlerDefaultFirst(options, id) ==
  IF options.defaultHandler # NoHandler THEN options.defaultHandler
  ELSE firstPrefixHandler(HandlerEntries(options.handlers), id, 1, NoHandler)

\* The handler alarm() picks for a task
chooseHandler(options, id) ==
  firstPrefixHandler(HandlerEntries(options.handlers), id, 1, options.defaultHandler)

\* A task that ran or failed and keeps its time
RescheduledNever(task, t) == task

\* The next time of a task that ran or failed at time t
Rescheduled(task, t) ==
  [task EXCEPT !.schedule = [@ EXCEPT !.time = getNextCronTime(task.schedule.cron, t)]]

\* String(error) of the error a handler throws
ErrorText == "Error: handler failed"

\* The catch block of alarm() for task at time now
taskFailed(storage, task, now) ==
  Bind(storagePut(storage, ErrorKey(task.id, now),
                  [error |-> ErrorText, task |-> task, timestamp |-> now]),
       LAMBDA recorded :
    Bind(storageGet(recorded, TaskKey(task.id)), LAMBDA currentTask :
      IF currentTask = Null THEN recorded
      ELSE storagePut(recorded, TaskKey(task.id),
             Rescheduled(
               With(currentTask, "data",
                 With(With(With(currentTask.data,
                                "_errors", OrZero(currentTask.data, "_errors") + 1),
                           "_lastErrorAt", now),
                      "_lastError", ErrorText)),
               now))))

\* The callback of alarm() for one due task at time now; throws tells
\* whether the handler, if one is called, throws
runTask(storage, options, task, now, throws) ==
  IF chooseHandler(options, task.id) # NoHandler /\ throws
  THEN taskFailed(storage, task, now)
  ELSE storagePut(storage, TaskKey(task.id),
                  Rescheduled(With(task, "lastExecutedAt", now), now))

RECURSIVE runTasks(_, _, _, _, _, _)
\* The callbacks for the tasks from the i-th on; throwing is the set of ids
\* whose handler throws
runTasks(storage, options, tasks, i, now, throwing) ==
  IF i > Len(tasks) THEN storage
  ELSE runTasks(runTask(storage, options, tasks[i], now, tasks[i].id \in throwing),
                options, tasks, i + 1, now, throwing)

\* The handler calls alarm() makes for tasks: [id, handler, task]
handlerCalls(options, tasks) ==
  LET called == SelectSeq(tasks, LAMBDA task : chooseHandler(options, task.id) # NoHandler)
  IN [i \in DOMAIN called |->
        [id |-> called[i].id, handler |-> chooseHandler(options, called[i].id),
         task |-> called[i]]]

\* alarm() at the time of the clock: the cron object after it
alarm(c, throwing) ==
  Bind(getTasksDueBy(c.storage, c.clock), LAMBDA tasks :
    Bind(runTasks(c.storage, c.options, tasks, 1, c.clock, throwing), LAMBDA stored :
      [c EXCEPT !.storage = stored,
                !.alarm = getNextAlarmTime(stored, c.clock),
                !.call = [NoCronCall EXCEPT !.op = "alarm", !.now = c.clock,
                                            !.pre = c.storage,
                                            !.invoked = handlerCalls(c.options, tasks),
                                            !.threw = throwing]]))

\* The task schedule() builds
NewTask(id, cronExpr, data, now) ==
  [id |-> id,
   schedule |-> [type |-> "cron", time |-> getNextCronTime(cronExpr, now), cron |-> cronExpr],
   data |-> data, createdAt |-> now, updatedAt |-> now]

\* options.id || crypto.randomUUID(): the empty string is no id
IdOrUuid(id, n) == IF id = <<>> THEN <<UuidPool[n + 1]>> ELSE id

\* schedule() that stores the task and leaves the alarm as it is
scheduleWithoutAlarm(c, cronExpr, id, data) ==
  Bind(NewTask(IdOrUuid(id, c.uuids), cronExpr, data, c.clock), LAMBDA task :
    [c EXCEPT !.storage = storagePut(c.storage, TaskKey(task.id), task),
              !.uuids = IF id = <<>> THEN @ + 1 ELSE @,
              !.scheduled = @ + 1,
              !.call = [NoCronCall EXCEPT !.op = "schedule", !.id = id,
                                          !.cronExpr = cronExpr, !.now = c.clock,
                                          !.pre = c.storage,
                                          !.result = [id |-> task.id,
                                                      nextExecutionTime |-> task.schedule.time]]])

\* schedule(cron, { id, data }) at the time of the clock
schedule(c, cronExpr, id, data) ==
  Bind(NewTask(IdOrUuid(id, c.uuids), cronExpr, data, c.clock), LAMBDA task :
    [c EXCEPT !.storage = storagePut(c.storage, TaskKey(task.id), task),
              !.alarm = IF c.alarm = NoAlarm \/ task.schedule.time < c.alarm
                        THEN task.schedule.time ELSE c.alarm,
              !.uuids = IF id = <<>> THEN @ + 1 ELSE @,
              !.scheduled = @ + 1,
              !.call = [NoCronCall EXCEPT !.op = "schedule", !.id = id,
                                          !.cronExpr = cronExpr, !.now = c.clock,
                                          !.pre = c.storage,
                                          !.result = [id |-> task.id,
                                                      nextExecutionTime |-> task.schedule.time]]])

\* cancel(id) that answers without deleting
cancelKeeping(c, id) ==
  [c EXCEPT !.call = [NoCronCall EXCEPT !.op = "cancel", !.id = id, !.now = c.clock,
                                        !.pre = c.storage,
                                        !.result = Bool(MapHas(c.storage, TaskKey(id)))]]

\* cancel(id) at the time of the clock
cancel(c, id) ==
  Bind(storageDelete(c.storage, TaskKey(id)), LAMBDA deleted :
    [c EXCEPT !.storage = deleted.storage,
              !.alarm = IF deleted.exists THEN getNextAlarmTime(deleted.storage, c.clock)
                        ELSE @,
              !.call = [NoCronCall EXCEPT !.op = "cancel", !.id = id, !.now = c.clock,
                                          !.pre = c.storage,
                                          !.result = Bool(deleted.exists)]])

\* the last minute of the clock
MaxClock == 2
\* error records stored in one behaviour
MaxErrors == 2
\* identifiers schedule() generates in one behaviour
MaxCronUuids == 1
\* calls of schedule() in one behaviour
MaxScheduled == 2

CronInputs == {"* * * * *", "*/2 * * * *"}

\* Task ids: 'a1', '10', 'b', and none given
IdInputs == {<<"a", "1">>, <<"1", "0">>, <<"b">>, <<>>}

\* options.data || {}: { n: 1 } or nothing
DataInputs == {[n |-> 1], NoData}

\* The options of createCronDurableObject: a default handler alone, the
\* prefixes '10' and '1' without a default, the prefix 'a' with a default
OptionsInputs ==
  {[defaultHandler |-> "defaultHandler", handlers |-> <<>>],
   [defaultHandler |-> NoHandler,
    handlers |-> <<[prefix |-> <<"1", "0">>, handler |-> "handler10"],
                   [prefix |-> <<"1">>, handler |-> "handler1"]>>],
   [defaultHandler |-> "defaultHandler",
    handlers |-> <<[prefix |-> <<"a">>, handler |-> "handlerA"]>>]}

\* The cron object steps to c
CronStep(c) ==
  /\ cron' = c
  /\ UNCHANGED <<table, uuids, cursor, last, calls, facade, deploy, upload, running>>

\* No call on the cron object is in progress
CronIdle == cron.built /\ cron.call = NoCronCall

\* new CronDurableObject(state, options): the constructor sets the alarm
Construct(options) ==
  /\ ~cron.built
  /\ CronStep([cron EXCEPT !.built = TRUE, !.options = options,
                           !.alarm = getNextAlarmTime(cron.storage, cron.clock)])

\* A minute passes
Tick ==
  /\ CronIdle
  /\ cron.clock < MaxClock
  /\ CronStep([cron EXCEPT !.clock = @ + 1])

\* The error records in the storage
ErrorRecords(storage) == {i \in DOMAIN storage : storage[i].key.prefix = "error:"}

\* The runtime calls alarm() at or after the time the alarm is set to
Alarm(throwing) ==
  /\ CronIdle
  /\ cron.alarm # NoAlarm /\ cron.clock >= cron.alarm
  /\ LET tasks == getTasksDueBy(cron.storage, cron.clock)
     IN throwing \subseteq
          {tasks[i].id : i \in {j \in DOMAIN tasks :
                                 chooseHandler(cron.options, tasks[j].id) # NoHandler}}
  /\ Cardinality(ErrorRecords(cron.storage)) + Cardinality(throwing) <= MaxErrors
  /\ CronStep(alarm(cron, throwing))

\* await cronDO.schedule(cron, { id, data })
Schedule(cronExpr, id, data) ==
  /\ CronIdle
  /\ cron.scheduled < MaxScheduled
  /\ id = <<>> => cron.uuids < MaxCronUuids
  /\ CronStep(schedule(cron, cronExpr, id, data))

\* await cronDO.cancel(id)
Cancel(id) ==
  /\ CronIdle
  /\ CronStep(cancel(cron, id))

\* The caller takes the result of the call that ended
CronReturn ==
  /\ cron.built /\ cron.call # NoCronCall
  /\ CronStep([cron EXCEPT !.call = NoCronCall])

\* The ids a task may have
TaskIds == (IdInputs \ {<<>>}) \cup {<<UuidPool[n]>> : n \in 1..MaxCronUuids}

NextCron ==
  \/ \E o \in OptionsInputs : Construct(o)
  \/ Tick
  \/ \E throwing \in SUBSET TaskIds : Alarm(throwing)
  \/ \E e \in CronInputs, id \in IdInputs, d \in DataInputs : Schedule(e, id, d)
  \/ \E id \in TaskIds : Cancel(id)
  \/ CronReturn

\* One cron object, the clock, and a caller that schedules and cancels
SpecCron == Init /\ [][NextCron]_vars

----------------------------------------------------------------------------
(* A cursor read with skip and limit                                        *)

\* the largest argument of skip() and limit()
MaxPage == 3

NextPage ==
  \/ \E d \in DocInputs : InsertOne(Own, d)
  \/ Find(Own, QueryAll, NoOptions)
  \/ \E s \in SortInputs : Sort(s)
  \/ \E n \in 0..MaxPage : Skip(n)
  \/ \E n \in 0..MaxPage : Limit(n)
  \/ ToArray
  \/ Return

\* A caller that inserts documents and reads pages of them through a cursor
SpecPage == Init /\ [][NextPage]_vars

----------------------------------------------------------------------------
(* Properties of the cursor, under SpecCursor *)

\* The rows of collection collectionName in t whose decoded document
\* satisfies query
Matching(t, collectionName, query) ==
  {i \in DOMAIN t :
     /\ t[i].collection = collectionName
     /\ matchesQuery(JSONparse(t[i].data), query).ok}

\* The cursor carries no sort, skip or limit
NoModifiers == cursor.sort = NoSort /\ cursor.skip = Undef /\ cursor.limit = Undef

\* C1: over the terminal calls on one cursor the scan of the collection runs
\* at most once
ScanAtMostOnce == cursor # NoCursor => cursor.scans <= 1

\* C2: count() on a cursor of find(query) returns the number of documents of
\* the collection that match the query, whatever skip and limit are set and
\* whether or not toArray() or first() was called before (no write since find)
CountIsMatchCount ==
  (last.op = "count" /\ ~cursor.wrote) =>
    last.result = Num(Cardinality(Matching(table, cursor.collection, cursor.query)))

\* C3: find(query).toArray() with no sort, skip or limit returns every stored
\* document of the collection that satisfies the query once, and nothing else
ToArrayIsMatchSet ==
  (last.op = "toArray" /\ ~last.threw /\ cursor.options = NoOptions /\ NoModifiers) =>
    LET result == last.result.a
        M == Matching(table, cursor.collection, cursor.query)
    IN /\ \A i \in M :
            Cardinality({j \in DOMAIN result : result[j] = JSONparse(table[i].data)}) = 1
       /\ \A j \in DOMAIN result : \E i \in M : result[j] = JSONparse(table[i].data)

\* C3 witness: toArray() returned a document while a document of the same
\* collection that does not match and a document of another collection are stored
ToArrayFiltered ==
  /\ last.op = "toArray" /\ ~last.threw
  /\ cursor.options = NoOptions /\ NoModifiers
  /\ Len(last.result.a) = 1
  /\ \E i \in DOMAIN table :
       table[i].collection = cursor.collection /\ i \notin Matching(table, cursor.collection, cursor.query)

\* C3 witness of the other collection: toArray() returned a document while
\* the other collection holds a document that satisfies the query
ToArrayOwnCollection ==
  /\ last.op = "toArray" /\ ~last.threw
  /\ cursor.options = NoOptions /\ NoModifiers
  /\ Len(last.result.a) = 1
  /\ \E c \in Collections \ {cursor.collection} : Matching(table, c, cursor.query) # {}

\* C4: find(query, {sort: s, skip: k, limit: m}).toArray() returns what
\* find(query).sort(s).skip(k).limit(m).toArray() returns on the same data
OptionsAsChaining ==
  (last.op = "toArray" /\ ~last.threw /\ ~cursor.wrote /\ NoModifiers) =>
    last.result =
      toArray(table, [find(cursor.collection, cursor.query, NoOptions)
                        EXCEPT !.sort = cursor.options.sort,
                               !.skip = cursor.options.skip,
                               !.limit = cursor.options.limit]).result

----------------------------------------------------------------------------
(* Properties of the collection operations, under Spec *)

\* The payload a row holds after update is applied to its document
Updated(row, update) ==
  [row EXCEPT !.data = JSONstringify(applyUpdate(JSONparse(row.data), update).obj)]

\* The least element of a non-empty set of positions: the first in scan order
FirstOf(S) == CHOOSE i \in S : \A j \in S : i <= j

\* C5: updateOne that matches nothing returns {0, 0} and writes nothing;
\* otherwise it overwrites the payload of the first matching record in scan
\* order with the updated document, returns {1, 1} and leaves every other
\* record unchanged
UpdateOneFrame ==
  (last.op = "updateOne" /\ ~last.threw) =>
    LET M == Matching(last.pre, last.collection, last.query)
    IN IF M = {}
       THEN last.result = UpdateResult(0, 0) /\ table = last.pre
       ELSE /\ last.result = UpdateResult(1, 1)
            /\ table = [j \in DOMAIN last.pre |->
                          IF j = FirstOf(M) THEN Updated(last.pre[j], last.update)
                          ELSE last.pre[j]]

\* C6: updateMany overwrites every record matched before its first write with
\* its updated document and no other record, and returns matchedCount =
\* modifiedCount = the size of the match set
UpdateManyEffect ==
  (last.op = "updateMany" /\ ~last.threw) =>
    LET M == Matching(last.pre, last.collection, last.query)
    IN /\ last.result = UpdateResult(Cardinality(M), Cardinality(M))
       /\ table = [j \in DOMAIN last.pre |->
                     IF j \in M THEN Updated(last.pre[j], last.update)
                     ELSE last.pre[j]]

InsertManyRejectedMidway ==
  last.op = "insertMany" /\ last.threw /\ last.failAt = 2

\* C7 witness of a rejected delete: a deleteMany whose second delete the
\* storage rejected
DeleteManyRejectedMidway ==
  last.op = "deleteMany" /\ last.threw /\ last.failAt = 2

\* C8: after deleteMany no document of the collection matches the query,
\* deletedCount is the number of documents that matched before the call, and
\* every other document is stored unchanged
DeleteManyEffect ==
  (last.op = "deleteMany" /\ ~last.threw) =>
    LET M == Matching(last.pre, last.collection, last.query)
    IN /\ Matching(table, last.collection, last.query) = {}
       /\ last.result = [deletedCount |-> Cardinality(M)]
       /\ table = Keep(last.pre, DOMAIN last.pre \ M)

\* C9: insertMany appends one record per input document, the i-th returned
\* id is the primary key of the record holding the i-th document, the ids are
\* pairwise distinct and new, and the records stored before are unchanged
InsertManyIds ==
  (last.op = "insertMany" /\ ~last.threw) =>
    LET ids == last.result.ids
        n == Len(last.pre)
    IN /\ Len(ids) = Len(last.documents)
       /\ Len(table) = n + Len(last.documents)
       /\ SubSeq(table, 1, n) = last.pre
       /\ \A i \in DOMAIN ids :
            /\ table[n + i].id = ids[i]
            /\ table[n + i].collection = last.collection
            /\ JSONparse(table[n + i].data) = WithProp(last.documents[i], "_id", ids[i])
            /\ \A j \in DOMAIN ids : ids[j] = ids[i] => j = i
            /\ \A j \in DOMAIN last.pre : last.pre[j].id # ids[i]

\* C9 witness: an insertMany of two different documents into a table that
\* holds a record already
InsertManyTwo ==
  /\ last.op = "insertMany" /\ ~last.threw
  /\ Len(last.documents) = 2 /\ last.documents[1] # last.documents[2]
  /\ last.pre # <<>>

\* C10: there is one record per identifier, and the decoded document of each
\* record carries the record's primary key as its _id
IdInvariant ==
  /\ \A i, j \in DOMAIN table : table[i].id = table[j].id => i = j
  /\ \A i \in DOMAIN table : IdOf(JSONparse(table[i].data)) = table[i].id

----------------------------------------------------------------------------
(* Properties of the predicate evaluator, under SpecMatch *)

\* C11: {$and: []} and {$or: []} match no document and {$nor: []} matches
\* every document; on a non-empty sequence $and matches iff all sub-queries
\* match, $or iff one does, $nor iff none does; an operand that is no
\* sequence makes each of the three fail
LogicalAlgebra ==
  (/\ last.op = "matchesQuery"
   /\ \/ last.query \in LogicalQueries
      \/ \E k \in LogicalKeys, val \in NonSequenceOperands :
           last.query = <<QEntry(<<k>>, val)>>) =>
    LET document == last.documents[1]
        k == last.query[1].key[1]
        val == last.query[1].val
        sub(i) == matchesQuery(document, val.qs[i].q).ok
    IN /\ ~last.threw
       /\ last.result =
            Bool(IF val.q # "list" THEN FALSE
                 ELSE CASE k = "$and" -> val.qs # <<>> /\ \A i \in DOMAIN val.qs : sub(i)
                        [] k = "$or" -> \E i \in DOMAIN val.qs : sub(i)
                        [] k = "$nor" -> ~\E i \in DOMAIN val.qs : sub(i))

RECURSIVE ResolveFrom(_, _, _)
\* The value at path in a document, read directly: undefined below anything
\* that is not an object holding the segment
ResolveFrom(current, path, i) ==
  IF i > Len(path) THEN current
  ELSE IF IsObj(current) /\ path[i] \in DOMAIN current.o
  THEN ResolveFrom(current.o[path[i]], path, i + 1)
  ELSE Undef

\* The comparison an operator names, between a resolved value and a scalar operand
Compares(op, value, operand) ==
  CASE op = "$eq" -> value = operand
    [] op = "$ne" -> value # operand
    [] op = "$gt" -> JsLess(operand, value)
    [] op = "$gte" -> JsLessEq(operand, value)
    [] op = "$lt" -> JsLess(value, operand)
    [] op = "$lte" -> JsLessEq(value, operand)

\* Every comparison listed for one field holds
EntryHolds(document, entry) ==
  LET value == ResolveFrom(document, entry.key, 1)
  IN IF entry.val.q = "lit" THEN Compares("$eq", value, entry.val.v)
     ELSE \A i \in DOMAIN entry.val.ops :
            Compares(entry.val.ops[i].op, value, entry.val.ops[i].arg)

\* C12: a query of field paths mapped to scalar literals or to mappings of
\* $eq/$gt/$gte/$lt/$lte/$ne matches a document iff every listed comparison
\* holds on the value resolved at the path (a literal meaning $eq, a path
\* through an absent or null intermediate resolving to undefined)
ComparisonsAgree ==
  (last.op = "matchesQuery" /\ last.query \in CompareQueries) =>
    /\ ~last.threw
    /\ last.result =
         Bool(\A i \in DOMAIN last.query : EntryHolds(last.documents[1], last.query[i]))

\* C12 witness: a query of two fields, one a dotted path with two operators,
\* matched a document
TwoFieldsMatched ==
  /\ last.op = "matchesQuery" /\ last.result = Bool(TRUE)
  /\ Len(last.query) = 2
  /\ Len(last.query[2].key) = 2

\* C12 witness of a failing second operator: the first operator of a field
\* holds and the second does not
SecondOperatorFailed ==
  /\ last.op = "matchesQuery" /\ last.result = Bool(FALSE)
  /\ Len(last.query) = 1 /\ last.query[1].val.q = "ops"
  /\ Len(last.query[1].val.ops) = 2
  /\ Compares(last.query[1].val.ops[1].op,
              ResolveFrom(last.documents[1], last.query[1].key, 1),
              last.query[1].val.ops[1].arg)

\* C13: matching never raises, and returns false for a malformed query
NeverRaises ==
  last.op = "matchesQuery" =>
    /\ ~last.threw
    /\ last.query \in MalformedQueries => last.result = Bool(FALSE)

----------------------------------------------------------------------------
(* Properties of the mutation applier, under SpecApply *)

\* The last call applied the one operator op to one field
Applied(op) ==
  /\ last.op = "applyUpdate"
  /\ last.update[1].op = op

\* The field, the operand and the field's value in the input of the last call
AppliedField == last.update[1].fields[1].path
AppliedValue == last.update[1].fields[1].value
AppliedCurrent == ResolveFrom(last.documents[1], AppliedField, 1)

\* C14: applyUpdate leaves its input document as it was, also for dotted
\* paths and for updates that end in an error
InputUnchanged ==
  last.op = "applyUpdate" => last.input = last.documents[1]

\* C15: $push on an absent field gives the one-element sequence of the
\* operand, on a sequence appends the operand as the last element, and on a
\* present non-sequence value (0, '' and false included) fails
PushAppends ==
  Applied("$push") =>
    CASE AppliedCurrent = Undef ->
           ~last.threw /\ ResolveFrom(last.result, AppliedField, 1) = Arr(<<AppliedValue>>)
      [] IsArr(AppliedCurrent) ->
           /\ ~last.threw
           /\ ResolveFrom(last.result, AppliedField, 1)
                = Arr(AppliedCurrent.a \o <<AppliedValue>>)
      [] OTHER -> last.threw

\* C17: $addToSet appends the operand only when the sequence (empty when the
\* field is absent) does not contain it; with the operand present the
\* document is unchanged, and applying the update a second time changes nothing
AddToSetOnce ==
  (Applied("$addToSet") /\ (AppliedCurrent = Undef \/ IsArr(AppliedCurrent))) =>
    LET old == IF AppliedCurrent = Undef THEN <<>> ELSE AppliedCurrent.a
        present == \E i \in DOMAIN old : old[i] = AppliedValue
    IN /\ ~last.threw
       /\ ResolveFrom(last.result, AppliedField, 1)
            = Arr(IF present THEN old ELSE old \o <<AppliedValue>>)
       /\ present => last.result = last.documents[1]
       /\ applyUpdate(last.result, last.update) = Done(last.result)

\* C17 witness: $addToSet with an operand that is the second element of the
\* field's sequence
AddToSetPresent ==
  /\ Applied("$addToSet") /\ IsArr(AppliedCurrent)
  /\ Len(AppliedCurrent.a) = 2 /\ AppliedCurrent.a[2] = AppliedValue
  /\ ~last.threw

\* C18: $pop on a non-empty sequence removes the last element for operand 1,
\* the first for operand -1 and nothing for any other operand, the other
\* elements keeping their order
PopRemoves ==
  (Applied("$pop") /\ IsArr(AppliedCurrent) /\ AppliedCurrent.a # <<>>) =>
    LET old == AppliedCurrent.a
    IN /\ ~last.threw
       /\ ResolveFrom(last.result, AppliedField, 1)
            = Arr(CASE AppliedValue = Num(1) -> SubSeq(old, 1, Len(old) - 1)
                    [] AppliedValue = Num(-1) -> SubSeq(old, 2, Len(old))
                    [] OTHER -> old)

\* C18 witness: $pop with operand 1 on a sequence of two elements
PopLastOfTwo ==
  /\ Applied("$pop") /\ IsArr(AppliedCurrent) /\ Len(AppliedCurrent.a) = 2
  /\ AppliedValue = Num(1) /\ ~last.threw

----------------------------------------------------------------------------
(* Properties of updateOne with $pull and $pop, under SpecArrayUpdate *)

\* The document updateOne matched: the first in scan order that matches
MatchedDocument ==
  JSONparse(last.pre[FirstOf(Matching(last.pre, last.collection, last.query))].data)

\* The update of the call applies $pull or $pop to a field that is absent
\* from the matched document or holds something other than a sequence
PullsFromNonSequence ==
  /\ last.op = "updateOne"
  /\ Matching(last.pre, last.collection, last.query) # {}
  /\ \E i \in DOMAIN last.update :
       /\ last.update[i].op \in ArrayOps
       /\ \E j \in DOMAIN last.update[i].fields :
            ~IsArray(ResolveFrom(MatchedDocument, last.update[i].fields[j].path, 1))

\* C16: updateOne whose update applies $pull or $pop to a field that is
\* absent or not a sequence in the matched document rejects, and the stored
\* records are the same before and after
PullFromNonSequenceRejects ==
  PullsFromNonSequence => (last.threw /\ table = last.pre)

\* C16 witness: $pull on a field that holds a string was rejected
PullFromStringRejected ==
  /\ PullsFromNonSequence
  /\ last.update[1].op = "$pull"
  /\ IsStr(ResolveFrom(MatchedDocument, last.update[1].fields[1].path, 1))
  /\ last.threw

\* $pop on a field the matched document lacks was rejected
PopFromAbsentRejected ==
  /\ PullsFromNonSequence
  /\ last.update[1].op = "$pop"
  /\ ResolveFrom(MatchedDocument, last.update[1].fields[1].path, 1) = Undef
  /\ last.threw

----------------------------------------------------------------------------
(* Properties of the sorted read, under SpecSort *)

\* The number of positions of the sequence a that hold d
Occurrences(a, d) == Cardinality({i \in DOMAIN a : a[i] = d})

RECURSIVE FirstDiffering(_, _, _, _)
\* The first position from i on of the sort spec at whose key a and b hold
\* different values, or 0
FirstDiffering(a, b, entries, i) ==
  IF i > Len(entries) THEN 0
  ELSE IF ResolveFrom(a, entries[i].key, 1) # ResolveFrom(b, entries[i].key, 1) THEN i
  ELSE FirstDiffering(a, b, entries, i + 1)

\* b is to come before a: at the first key of the spec, in the order written,
\* where they differ, b is below a (direction 1) or above a (direction -1)
ComesBefore(b, a, entries) ==
  LET k == FirstDiffering(a, b, entries, 1)
  IN /\ k # 0
     /\ IF entries[k].direction = 1
        THEN JsLess(ResolveFrom(b, entries[k].key, 1), ResolveFrom(a, entries[k].key, 1))
        ELSE JsLess(ResolveFrom(a, entries[k].key, 1), ResolveFrom(b, entries[k].key, 1))

\* toArray() returned the documents of a cursor that has a sort spec
SortedRead == last.op = "toArray" /\ ~last.threw /\ cursor.sort # NoSort

\* C20: toArray() on a cursor with a sort spec returns a permutation of the
\* fetched documents in which no document stands after one it is to come
\* before by the keys of the spec in the order written, and documents equal
\* on every key stand in the order they were fetched
SortedByKeys ==
  SortedRead =>
    LET fetched == cursor.documents
        result == last.result.a
        entries == cursor.sort.e
    IN /\ Len(result) = Len(fetched)
       /\ \A i \in DOMAIN fetched :
            Occurrences(result, fetched[i]) = Occurrences(fetched, fetched[i])
       /\ \A i, j \in DOMAIN result :
            i < j => ~ComesBefore(result[j], result[i], entries)
       /\ \A i, j \in DOMAIN fetched :
            (i < j /\ FirstDiffering(fetched[i], fetched[j], entries, 1) = 0) =>
              \E p, q \in DOMAIN result :
                p < q /\ result[p] = fetched[i] /\ result[q] = fetched[j]

----------------------------------------------------------------------------
(* Properties of overlapping updateOne calls, under SpecRace *)

\* The payload now stored under the identifier of document
StoredAs(document) ==
  LET i == CHOOSE i \in DOMAIN table :
             table[i].id = IdOf(document) /\ table[i].collection = Own
  IN table[i].data

\* Both calls have settled without an error after findOne gave both the
\* same document
BothReadTheSame ==
  /\ \A p \in Callers : calls[p].pc = "settled" /\ ~calls[p].threw
  /\ calls[1].document = calls[2].document
  /\ calls[1].document # Null

\* C19: two overlapping updateOne calls that read the same document both
\* return {matchedCount: 1, modifiedCount: 1}, and the stored document is
\* that document with the update of one of the two calls applied, the other
\* update lost
OneUpdateLost ==
  BothReadTheSame =>
    /\ \A p \in Callers : calls[p].result = UpdateResult(1, 1)
    /\ \E p \in Callers :
         StoredAs(calls[p].document) =
           JSONstringify(applyUpdate(calls[p].document, calls[p].update).obj)

\* C19 witness: two $inc by 1 read the same document, both returned {1, 1},
\* and the stored value has grown by 1
IncrementLost ==
  /\ BothReadTheSame
  /\ \A p \in Callers : calls[p].update = UpdateInc /\ calls[p].result = UpdateResult(1, 1)
  /\ getNestedProperty(JSONparse(StoredAs(calls[1].document)), <<"v">>) =
       Num(getNestedProperty(calls[1].document, <<"v">>).n + 1)

----------------------------------------------------------------------------
(* Properties of the paged read, under SpecPage *)

\* toArray() returned the documents of a cursor that has both skip and limit set
PagedRead ==
  last.op = "toArray" /\ ~last.threw /\ cursor.skip # Undef /\ cursor.limit # Undef

\* The smaller of two numbers
Min(x, y) == IF x < y THEN x ELSE y

\* C21: with skip(k) and limit(m) set, toArray() returns the elements at
\* positions k .. k+m-1 of the sorted match set: min(m, max(0, N-k)) elements,
\* none for limit(0)
SkipThenLimit ==
  PagedRead =>
    LET sorted == originalToArray(cursor.documents, cursor.sort, Undef, Undef).a
        k == cursor.skip.n
        m == cursor.limit.n
    IN last.result.a = SubSeq(sorted, k + 1, Min(k + m, Len(sorted)))

----------------------------------------------------------------------------
(* Properties of the store facade, under SpecFacade *)

\* The positions of facade.got that hold what db.collection(name) returned
ByCollection == {i \in DOMAIN facade.got : facade.got[i].via = "collection"}

\* C22: collection(name) returns the identical handle on every call with the
\* same name and different handles for different names, and the handle it
\* returned is the one the facade holds for the name from then on
HandlePerName ==
  /\ \A i, j \in ByCollection :
       (facade.got[i].name = facade.got[j].name) <=>
         (facade.got[i].value.ref = facade.got[j].value.ref)
  /\ \A i \in ByCollection :
       /\ facade.got[i].value.t = "Collection"
       /\ MapGet(facade.collections, facade.got[i].name) = facade.got[i].value

\* C22 witness: the same name was asked for twice, after another name
SameNameTwice ==
  \E i, j, k \in ByCollection :
    /\ i < j /\ j < k
    /\ facade.got[i].name # facade.got[j].name
    /\ facade.got[j].name = facade.got[k].name
    /\ facade.got[j].value = facade.got[k].value

\* C23: on a store built with new DurableObjectsNoSQL(storage), db[name] is
\* the Collection handle of collection name, the one db.collection(name)
\* returns
CollectionsAsProperties ==
  \A i \in DOMAIN facade.got :
    facade.got[i].via = "property" =>
      /\ facade.got[i].value.t = "Collection"
      /\ facade.got[i].value.collectionName = facade.got[i].name
      /\ facade.got[i].value = collection(facade, facade.got[i].name).value

----------------------------------------------------------------------------
(* Properties of the cron object, under SpecCron *)

\* alarm() has just run
AlarmRan == cron.call.op = "alarm"

\* The tasks stored when the call began, and those due then
TasksBefore == listTasks(cron.call.pre)
DueBefore == {i \in DOMAIN TasksBefore : TasksBefore[i].schedule.time <= cron.call.now}

\* A handler applies to the id: a default handler is given, or the id
\* starts with a registered prefix
HandlerApplies(id) ==
  \/ cron.options.defaultHandler # NoHandler
  \/ \E k \in DOMAIN cron.options.handlers : startsWith(id, cron.options.handlers[k].prefix)

\* The number of handler calls the alarm made for the id
TimesInvoked(id) == Cardinality({k \in DOMAIN cron.call.invoked : cron.call.invoked[k].id = id})

\* time is the first occurrence of the cron expression after now
NextOccurrence(cronExpr, now, time) ==
  /\ time > now
  /\ time % CronPeriod(cronExpr) = 0
  /\ time - CronPeriod(cronExpr) <= now

\* The alarm is set to the earliest time of a stored task
AlarmRearmed ==
  /\ cron.alarm # NoAlarm
  /\ LET tasks == listTasks(cron.storage)
     IN /\ \A i \in DOMAIN tasks : cron.alarm <= tasks[i].schedule.time
        /\ tasks # <<>> => \E i \in DOMAIN tasks : cron.alarm = tasks[i].schedule.time

\* The task is stored again as executed at the time of the alarm
StoredAsExecuted(task) ==
  LET stored == getTask(cron.storage, task.id)
  IN /\ stored # Null
     /\ "lastExecutedAt" \in DOMAIN stored
     /\ stored.lastExecutedAt = cron.call.now
     /\ NextOccurrence(task.schedule.cron, cron.call.now, stored.schedule.time)
     /\ stored.data = task.data /\ stored.id = task.id

\* C24: alarm() at time now invokes the handler that applies once for each
\* stored task with schedule.time <= now and for no other task; each task
\* executed is stored again with lastExecutedAt = now and schedule.time at
\* the next occurrence after now; and the alarm is set again
AlarmRunsDueTasks ==
  AlarmRan =>
    /\ \A i \in DOMAIN TasksBefore :
         TimesInvoked(TasksBefore[i].id) =
           IF i \in DueBefore /\ HandlerApplies(TasksBefore[i].id) THEN 1 ELSE 0
    /\ \A k \in DOMAIN cron.call.invoked :
         \E i \in DueBefore : TasksBefore[i] = cron.call.invoked[k].task
    /\ \A i \in DueBefore :
         TasksBefore[i].id \notin cron.call.threw => StoredAsExecuted(TasksBefore[i])
    /\ \A i \in DOMAIN TasksBefore \ DueBefore :
         getTask(cron.storage, TasksBefore[i].id) = TasksBefore[i]
    /\ AlarmRearmed

\* C24 witness: the alarm ran one task that was due at an earlier minute
\* while another stored task was not due
DueTaskRanOtherWaited ==
  /\ AlarmRan /\ cron.call.threw = {}
  /\ Len(cron.call.invoked) = 1
  /\ cron.call.invoked[1].task.schedule.time < cron.call.now
  /\ DOMAIN TasksBefore \ DueBefore # {}

ErrorsAreConsecutive ==
  AlarmRan =>
    \A i \in DueBefore :
      LET task == TasksBefore[i]
          stored == getTask(cron.storage, task.id)
      IN OrZero(stored.data, "_errors") =
           IF task.id \in cron.call.threw THEN OrZero(task.data, "_errors") + 1 ELSE 0

RECURSIVE FirstRegistered(_, _, _)
\* The handler of the first prefix, in the order the handlers were written,
\* that the id starts with; otherwise the default handler
FirstRegistered(options, id, k) ==
  IF k > Len(options.handlers) THEN options.defaultHandler
  ELSE IF startsWith(id, options.handlers[k].prefix) THEN options.handlers[k].handler
  ELSE FirstRegistered(options, id, k + 1)

\* C27: for each due task the handler called is the one registered under
\* the first prefix, in registration order, that the id starts with,
\* otherwise the default handler; with no such handler none is called and
\* the task is rescheduled all the same
HandlerByFirstPrefix ==
  AlarmRan =>
    \A i \in DueBefore :
      LET id == TasksBefore[i].id
          handler == FirstRegistered(cron.options, id, 1)
          made == {k \in DOMAIN cron.call.invoked : cron.call.invoked[k].id = id}
      IN /\ IF handler = NoHandler THEN made = {}
            ELSE /\ Cardinality(made) = 1
                 /\ \A k \in made : cron.call.invoked[k].handler = handler
         /\ LET stored == getTask(cron.storage, id)
            IN /\ stored # Null
               /\ NextOccurrence(stored.schedule.cron, cron.call.now, stored.schedule.time)

\* The entries of the storage other than the task of the id
Others(storage, id) == SelectSeq(storage, LAMBDA e : e.key # TaskKey(id))

\* C28: cancel(id) returns true iff a task with the id was stored; after it
\* getTask(id) is null, listTasks() has no task of the id and every other
\* entry is as it was; and an alarm calls handlers only for tasks that are
\* stored when it runs, so none for a cancelled id until it is scheduled again
CancelRemoves ==
  /\ cron.call.op = "cancel" =>
       /\ cron.call.result = Bool(\E i \in DOMAIN TasksBefore : TasksBefore[i].id = cron.call.id)
       /\ getTask(cron.storage, cron.call.id) = Null
       /\ \A i \in DOMAIN listTasks(cron.storage) :
            listTasks(cron.storage)[i].id # cron.call.id
       /\ cron.storage = Others(cron.call.pre, cron.call.id)
  /\ AlarmRan =>
       \A k \in DOMAIN cron.call.invoked :
         getTask(cron.call.pre, cron.call.invoked[k].id) # Null

\* C28 witness: cancel returned true and another task stayed
CancelledOneOfTwo ==
  /\ cron.call.op = "cancel" /\ cron.call.result = Bool(TRUE)
  /\ Len(TasksBefore) = 2
  /\ Len(listTasks(cron.storage)) = 1

\* C29: schedule(cron, {id, data}) stores one task under task:{id}, the id
\* given or else one that no stored task has, in place of any earlier task
\* of the id, and returns the id with the stored schedule.time; and no two
\* stored tasks have the same id
OneTaskPerId ==
  /\ \A i, j \in DOMAIN cron.storage :
       /\ cron.storage[i].key = cron.storage[j].key => i = j
       /\ cron.storage[i].key.prefix = "task:" =>
            cron.storage[i].value.id = cron.storage[i].key.id
  /\ cron.call.op = "schedule" =>
       LET id == cron.call.result.id
           stored == getTask(cron.storage, id)
       IN /\ IF cron.call.id # <<>> THEN id = cron.call.id
             ELSE \A i \in DOMAIN TasksBefore : TasksBefore[i].id # id
          /\ stored # Null
          /\ stored.id = id /\ stored.schedule.cron = cron.call.cronExpr
          /\ cron.call.result.nextExecutionTime = stored.schedule.time
          /\ NextOccurrence(cron.call.cronExpr, cron.call.now, stored.schedule.time)
          /\ Others(cron.storage, id) = Others(cron.call.pre, id)

\* C29 witness: schedule replaced the task of an id with one of another
\* cron expression
TaskReplaced ==
  /\ cron.call.op = "schedule"
  /\ getTask(cron.call.pre, cron.call.id) # Null
  /\ getTask(cron.call.pre, cron.call.id).schedule.cron # cron.call.cronExpr
  /\ Len(listTasks(cron.storage)) = Len(TasksBefore)

\* ---------------------------------------------------------------------
\* deploy-worker: deployWorker validates, tests, bundles and deploys
\* ---------------------------------------------------------------------

\* the stages in the order deployWorker awaits them
StageOrder ==
  <<"typescript-validation", "eslint-validation", "test-execution",
    "bundling", "deployment">>

\* a validation stage resolves with its list of errors
Errors(errors) == [kind |-> "errors", errors |-> errors]

\* bundleCode resolves with the bundle, deployToCloudflare with the URL
Value(value) == [kind |-> "value", value |-> value]

\* a stage rejects
Throws(message) == [kind |-> "throws", message |-> message]

MaxStageErrors == 2

ErrorLists ==
  {[i \in 1..n |-> "error"] : n \in 0..MaxStageErrors}

\* what the compiler, the linter or the test run finds when it is run
Findings ==
  {Errors(errors) : errors \in ErrorLists} \cup {Throws("stage failed")}

\* what the bundler gives
Bundles == {Value("bundled code"), Throws("ESBuild error")}

\* what the Cloudflare API gives
Deployments ==
  {Value("https://example.workers.dev"), Throws("Deployment error")}

\* options.typescript.checkTypes, options.eslint.runLint,
\* options.vitest.runTests (each true by default) and whether
\* options.cloudflare carries the account id, token and namespace
OptionsOfDeploy ==
  [checkTypes : BOOLEAN, runLint : BOOLEAN, runTests : BOOLEAN,
   credentials : BOOLEAN]

validateTypeScript(options, found) ==
  IF ~options.checkTypes THEN Errors(<<>>) ELSE found

validateESLint(options, found) ==
  IF ~options.runLint THEN Errors(<<>>) ELSE found

runTests(options, found) ==
  IF ~options.runTests THEN Errors(<<>>) ELSE found

bundleCode(options, built) == built

deployToCloudflare(options, answer) ==
  IF ~options.credentials
  THEN Throws("Cloudflare account ID is required")
  ELSE answer

caughtWithoutMessage(d, outcome) ==
  [d EXCEPT !.pc = "returned",
            !.result = [success |-> FALSE,
                        errors |-> <<>>,
                        stage |-> "bundling"]]

\* the catch block of deployWorker
caught(d, outcome) ==
  [d EXCEPT !.pc = "returned",
            !.result = [success |-> FALSE,
                        errors |-> <<outcome.message>>,
                        stage |-> "bundling"]]

\* the stage has been awaited
awaited(d, stage, outcome) ==
  [d EXCEPT !.invoked = Append(@, [stage |-> stage, outcome |-> outcome])]

validatedIgnoringErrors(d, stage, outcome, next) ==
  IF outcome.kind = "throws"
  THEN caught(awaited(d, stage, outcome), outcome)
  ELSE [awaited(d, stage, outcome) EXCEPT !.pc = next]

\* const errors = await stage(...); if (errors.length > 0) return {...}
validated(d, stage, outcome, next) ==
  IF outcome.kind = "throws"
  THEN caught(awaited(d, stage, outcome), outcome)
  ELSE IF Len(outcome.errors) > 0
  THEN [awaited(d, stage, outcome) EXCEPT
          !.pc = "returned",
          !.result = [success |-> FALSE,
                      errors |-> outcome.errors,
                      stage |-> stage]]
  ELSE [awaited(d, stage, outcome) EXCEPT !.pc = next]

\* const bundledCode = await bundleCode(...)
bundled(d, outcome) ==
  IF outcome.kind = "throws"
  THEN caught(awaited(d, "bundling", outcome), outcome)
  ELSE [awaited(d, "bundling", outcome) EXCEPT
          !.pc = "deployment", !.bundledCode = outcome.value]

\* const deploymentUrl = await deployToCloudflare(bundledCode, ...)
deployed(d, outcome) ==
  IF outcome.kind = "throws"
  THEN caught(awaited(d, "deployment", outcome), outcome)
  ELSE [awaited(d, "deployment", outcome) EXCEPT
          !.pc = "returned",
          !.result = [success |-> TRUE,
                      deploymentUrl |-> outcome.value,
                      stage |-> "deployed"]]

\* deployWorker(worker, options) is called
DeployWorker(options) ==
  /\ deploy.pc = "none"
  /\ deploy' = [pc |-> "typescript-validation",
                options |-> options,
                invoked |-> <<>>,
                bundledCode |-> "undefined",
                result |-> [stage |-> "none"]]
  /\ UNCHANGED <<table, uuids, cursor, last, calls, facade, cron, upload, running>>

ValidateTypeScript(found) ==
  /\ deploy.pc = "typescript-validation"
  /\ deploy' = validated(deploy, "typescript-validation",
                         validateTypeScript(deploy.options, found),
                         "eslint-validation")
  /\ UNCHANGED <<table, uuids, cursor, last, calls, facade, cron, upload, running>>

ValidateESLint(found) ==
  /\ deploy.pc = "eslint-validation"
  /\ deploy' = validated(deploy, "eslint-validation",
                         validateESLint(deploy.options, found),
                         "test-execution")
  /\ UNCHANGED <<table, uuids, cursor, last, calls, facade, cron, upload, running>>

RunTests(found) ==
  /\ deploy.pc = "test-execution"
  /\ deploy' = validated(deploy, "test-execution",
                         runTests(deploy.options, found),
                         "bundling")
  /\ UNCHANGED <<table, uuids, cursor, last, calls, facade, cron, upload, running>>

BundleCode(built) ==
  /\ deploy.pc = "bundling"
  /\ deploy' = bundled(deploy, bundleCode(deploy.options, built))
  /\ UNCHANGED <<table, uuids, cursor, last, calls, facade, cron, upload, running>>

DeployToCloudflare(answer) ==
  /\ deploy.pc = "deployment"
  /\ deploy' = deployed(deploy, deployToCloudflare(deploy.options, answer))
  /\ UNCHANGED <<table, uuids, cursor, last, calls, facade, cron, upload, running>>

\* the caller has the result; deployWorker can be called again
DeployReturn ==
  /\ deploy.pc = "returned"
  /\ deploy' = NotDeploying
  /\ UNCHANGED <<table, uuids, cursor, last, calls, facade, cron, upload, running>>

NextDeploy ==
  \/ \E options \in OptionsOfDeploy : DeployWorker(options)
  \/ \E found \in Findings : ValidateTypeScript(found)
  \/ \E found \in Findings : ValidateESLint(found)
  \/ \E found \in Findings : RunTests(found)
  \/ \E built \in Bundles : BundleCode(built)
  \/ \E answer \in Deployments : DeployToCloudflare(answer)
  \/ DeployReturn

SpecDeploy == Init /\ [][NextDeploy]_vars

\* the stage resolved and, when it is a validation, with no errors
Passed(outcome) ==
  /\ outcome.kind # "throws"
  /\ outcome.kind = "errors" => outcome.errors = <<>>

Deploying == deploy.pc # "none"

\* C30: the stages deployWorker has invoked are the first ones of the order
\* TypeScript validation, ESLint validation, test execution, bundling,
\* deployment, every invoked stage but the last one passed (so nothing is
\* invoked after a stage that reports errors or throws, and
\* deployToCloudflare is invoked after four passes only), and a stage is
\* about to be invoked only when all the invoked ones passed
StagesInOrder ==
  Deploying =>
    /\ Len(deploy.invoked) <= Len(StageOrder)
    /\ \A i \in 1..Len(deploy.invoked) :
         /\ deploy.invoked[i].stage = StageOrder[i]
         /\ i < Len(deploy.invoked) => Passed(deploy.invoked[i].outcome)
    /\ deploy.pc # "returned" =>
         /\ \A i \in 1..Len(deploy.invoked) :
              Passed(deploy.invoked[i].outcome)
         /\ Len(deploy.invoked) < Len(StageOrder)
         /\ deploy.pc = StageOrder[Len(deploy.invoked) + 1]
    /\ deploy.pc = "returned" =>
         /\ Len(deploy.invoked) >= 1
         /\ deploy.result.success
              <=> /\ Len(deploy.invoked) = Len(StageOrder)
                  /\ Passed(deploy.invoked[Len(StageOrder)].outcome)

\* the tests reported errors after both validations passed, and deployWorker
\* returned without bundling
StoppedAtTests ==
  /\ deploy.pc = "returned"
  /\ Len(deploy.invoked) = 3
  /\ deploy.invoked[3].outcome.kind = "errors"
  /\ Len(deploy.invoked[3].outcome.errors) > 0
  /\ deploy.options.runTests
  /\ deploy.result.stage = "test-execution"

DeployReturned == deploy.pc = "returned"

\* the stage deployWorker awaited last
LastInvoked == deploy.invoked[Len(deploy.invoked)]

AllStagesPassed ==
  /\ Len(deploy.invoked) = Len(StageOrder)
  /\ \A i \in 1..Len(deploy.invoked) : Passed(deploy.invoked[i].outcome)

\* C31: deployWorker resolves whatever the stages do: a call is awaiting a
\* stage or has returned a result; the result has success true exactly when
\* all five stages passed, and then stage 'deployed' and the URL that
\* deployToCloudflare resolved with and no errors; every other result,
\* a stage that threw included, has success false, a non-empty errors list
\* and no deploymentUrl
DeployAlwaysResolves ==
  /\ Deploying => deploy.pc \in {StageOrder[i] : i \in 1..5} \cup {"returned"}
  /\ DeployReturned =>
       /\ deploy.result.success \in BOOLEAN
       /\ deploy.result.success <=> AllStagesPassed
       /\ deploy.result.success =>
            /\ deploy.result.stage = "deployed"
            /\ "deploymentUrl" \in DOMAIN deploy.result
            /\ deploy.result.deploymentUrl = LastInvoked.outcome.value
            /\ "errors" \notin DOMAIN deploy.result
       /\ ~deploy.result.success =>
            /\ "errors" \in DOMAIN deploy.result
            /\ Len(deploy.result.errors) > 0
            /\ "deploymentUrl" \notin DOMAIN deploy.result
            /\ ~Passed(LastInvoked.outcome)

\* the bundle was built and deployToCloudflare threw
DeploymentThrew ==
  /\ DeployReturned
  /\ Len(deploy.invoked) = 5
  /\ LastInvoked.outcome.kind = "throws"
  /\ ~deploy.result.success
  /\ deploy.result.errors = <<LastInvoked.outcome.message>>

\* C32: a failed result's stage is the stage that reported the errors or
\* threw
FailedStageNamed ==
  (DeployReturned /\ ~deploy.result.success) =>
    deploy.result.stage = LastInvoked.stage

\* a failed result's stage is the stage that reported errors, when the
\* stage did not throw
FailedValidationNamed ==
  (DeployReturned /\ ~deploy.result.success
     /\ LastInvoked.outcome.kind # "throws") =>
    deploy.result.stage = LastInvoked.stage

\* ---------------------------------------------------------------------
\* deploy-worker: the upload loop of deployToCloudflare
\* ---------------------------------------------------------------------

\* const { maxRetries = 3 } = options
DefaultMaxRetries == 3

MaxRetriesGiven == 2

\* options.maxRetries: left out, or a number
MaxRetriesInputs == {Undef} \cup {Num(n) : n \in 0..MaxRetriesGiven}

UploadOptions == [credentials : BOOLEAN, maxRetries : MaxRetriesInputs]

maxRetriesOf(options) ==
  IF options.maxRetries.t = "undefined"
  THEN DefaultMaxRetries
  ELSE options.maxRetries.n

\* what fetch resolves with: a status and what response.json() gives
\* ("result": {result: {subdomain}}, "errors": {errors: [..]},
\* "message": {message}, "empty": {}, "unparseable": json() rejects)
Response(status, body) ==
  [kind |-> "response", status |-> status, body |-> body]

\* fetch rejects
NetworkException == [kind |-> "exception", status |-> 0, body |-> "none"]

Statuses == {200, 400, 429, 500}

Bodies == {"result", "errors", "message", "empty", "unparseable"}

Responses ==
  {Response(status, body) : status \in Statuses, body \in Bodies}
    \cup {NetworkException}

\* response.ok
ok(response) == response.status >= 200 /\ response.status <= 299

\* an Error object: where it was made and from what
Err(name, detail, status) ==
  [t |-> "error", name |-> name, detail |-> detail, status |-> status]

NoError == Err("null", "none", 0)

FailedToDeploy == Err("Error", "Failed to deploy worker after multiple attempts", 0)

\* lastError after a response that is not OK (79-90)
apiError(response) ==
  IF response.body = "unparseable"
  THEN Err("Cloudflare API error", "Unable to parse error details",
           response.status)
  ELSE IF response.body = "errors"
  THEN Err("Cloudflare API error", "codes and messages", response.status)
  ELSE IF response.body = "message"
  THEN Err("Cloudflare API error", "message", response.status)
  ELSE Err("Cloudflare API error", "status and statusText", response.status)

\* what line 75-76 throws on an OK response without result.subdomain
jsonError(response) ==
  IF response.body = "unparseable"
  THEN Err("SyntaxError", "Unexpected token", response.status)
  ELSE Err("TypeError", "Cannot read properties of undefined",
           response.status)

\* throw lastError || new Error('Failed to deploy ...')
thrown(u) ==
  [u EXCEPT !.pc = "threw",
            !.error = IF u.lastError = NoError
                      THEN FailedToDeploy ELSE u.lastError]

\* the end of the loop body and the loop condition
nextAttempt(u) ==
  Bind([u EXCEPT !.attempt = @ + 1],
       LAMBDA v : IF v.attempt < v.maxRetries
                  THEN [v EXCEPT !.pc = "delay"]
                  ELSE thrown(v))

\* the attempt is over: the log has its response and lastError
attempted(u, response, error) ==
  [u EXCEPT !.lastError = error,
            !.log = Append(@, [response |-> response, error |-> error])]

\* the body of the while loop with the response fetch gave (65-103)
attempt(u, response) ==
  IF response.kind = "exception"
  THEN nextAttempt(attempted(u, response, Err("Error", "fetch failed", 0)))
  ELSE IF ok(response)
  THEN IF response.body = "result"
       THEN [attempted(u, response, u.lastError) EXCEPT
               !.pc = "returned", !.url = "https://worker.sub.workers.dev"]
       ELSE nextAttempt(attempted(u, response, jsonError(response)))
  ELSE IF response.status < 500 /\ response.status # 429
  THEN thrown(attempted(u, response, apiError(response)))
  ELSE nextAttempt(attempted(u, response, apiError(response)))

\* deployToCloudflare up to the first loop condition (10-64)
uploadStarted(options) ==
  Bind([pc |-> "fetch", maxRetries |-> maxRetriesOf(options),
        attempt |-> 0, lastError |-> NoError, log |-> <<>>,
        error |-> NoError, url |-> "undefined"],
       LAMBDA u :
         IF ~options.credentials
         THEN [u EXCEPT !.pc = "threw",
                        !.error = Err("Error", "Cloudflare account ID is required", 0)]
         ELSE IF u.attempt < u.maxRetries THEN u ELSE thrown(u))

\* deployToCloudflare(code, metadata, options) is called
Upload(options) ==
  /\ upload.pc = "none"
  /\ upload' = uploadStarted(options)
  /\ UNCHANGED <<table, uuids, cursor, last, calls, facade, cron, deploy, running>>

\* fetch settles and the loop body runs to its end
Fetch(response) ==
  /\ upload.pc = "fetch"
  /\ upload' = attempt(upload, response)
  /\ UNCHANGED <<table, uuids, cursor, last, calls, facade, cron, deploy, running>>

\* the timer of the delay between attempts fires
Delay ==
  /\ upload.pc = "delay"
  /\ upload' = [upload EXCEPT !.pc = "fetch"]
  /\ UNCHANGED <<table, uuids, cursor, last, calls, facade, cron, deploy, running>>

\* the caller has the URL or the error
UploadReturn ==
  /\ upload.pc \in {"returned", "threw"}
  /\ upload' = NotUploading
  /\ UNCHANGED <<table, uuids, cursor, last, calls, facade, cron, deploy, running>>

NextUpload ==
  \/ \E options \in UploadOptions : Upload(options)
  \/ \E response \in Responses : Fetch(response)
  \/ Delay
  \/ UploadReturn

SpecUpload == Init /\ [][NextUpload]_vars

\* the timer fires and fetch settles
FairSpecUpload ==
  SpecUpload /\ WF_vars(Delay) /\ WF_vars(\E response \in Responses : Fetch(response))

Uploading == upload.pc # "none"

UploadEnded == upload.pc \in {"returned", "threw"}

\* the status of a response that is not OK is one the claim retries on
Transient(response) == response.status = 429 \/ response.status >= 500

\* attempt i of the log was followed by another one only for a good reason
RetriedRightly(response) ==
  \/ response.kind = "exception"
  \/ response.kind = "response" /\ ~ok(response) /\ Transient(response)

\* C33: deployToCloudflare issues at most maxRetries requests; every
\* request but the last was answered by a network exception or by a status
\* 429 or >= 500; it returns the URL at the first OK response, stops at any
\* other status that is not OK, and otherwise throws the error of the last
\* attempt
UploadRetries ==
  Uploading =>
    /\ Len(upload.log) <= upload.maxRetries
    /\ \A i \in 1..Len(upload.log) :
         /\ i < Len(upload.log) => RetriedRightly(upload.log[i].response)
         /\ (upload.log[i].response.kind = "response"
               /\ ok(upload.log[i].response)) =>
              /\ i = Len(upload.log)
              /\ upload.pc = "returned"
         /\ (upload.log[i].response.kind = "response"
               /\ ~ok(upload.log[i].response)
               /\ ~Transient(upload.log[i].response)) =>
              /\ i = Len(upload.log)
              /\ upload.pc = "threw"
    /\ (upload.pc = "threw" /\ Len(upload.log) > 0) =>
         upload.error = upload.log[Len(upload.log)].error
    /\ upload.pc = "returned" =>
         /\ Len(upload.log) > 0
         /\ ok(upload.log[Len(upload.log)].response)

\* an upload that has begun ends
UploadTerminates == (upload.pc = "fetch") ~> UploadEnded

----------------------------------------------------------------------------
(* The cursor is read lazily, under SpecPage *)

\* the decoded documents of the collection's rows in t, in scan order
StoredDocs(t, collectionName) ==
  [i \in DOMAIN SqlSelect(t, collectionName) |->
     JSONparse(SqlSelect(t, collectionName)[i].data)]

\* the number of positions of the sequence a that hold d
TimesIn(a, d) == Cardinality({i \in DOMAIN a : a[i] = d})

\* C34: find() reads nothing: the cursor it returns holds no documents until
\* a terminal operation runs; the first toArray() of a cursor without skip
\* and limit returns the documents the collection holds when toArray() is
\* called, those inserted since find() included
FindIsLazy ==
  /\ (cursor # NoCursor /\ cursor.scans = 0) => cursor.documents = <<>>
  /\ (last.op = "toArray" /\ ~last.threw /\ cursor.scans = 1
        /\ cursor.skip = Undef /\ cursor.limit = Undef) =>
       /\ Len(last.result.a) = Len(StoredDocs(table, cursor.collection))
       /\ \A i \in DOMAIN StoredDocs(table, cursor.collection) :
            TimesIn(last.result.a, StoredDocs(table, cursor.collection)[i])
              = TimesIn(StoredDocs(table, cursor.collection),
                        StoredDocs(table, cursor.collection)[i])

\* a document was inserted between find() and the first toArray(), which
\* returned it beside the one stored before
InsertedAfterFind ==
  /\ last.op = "toArray" /\ ~last.threw
  /\ cursor.scans = 1
  /\ cursor.wrote
  /\ cursor.skip = Undef /\ cursor.limit = Undef
  /\ Len(table) = 2
  /\ Len(last.result.a) = 2

----------------------------------------------------------------------------
(* deleteOne, under Spec *)

\* C35: deleteOne that matches nothing returns deletedCount 0 and writes
\* nothing; otherwise it removes the first matching record in scan order and
\* no other record, and returns deletedCount 1
DeleteOneEffect ==
  (last.op = "deleteOne" /\ ~last.threw) =>
    LET M == Matching(last.pre, last.collection, last.query)
    IN IF M = {}
       THEN /\ last.result = [deletedCount |-> 0]
            /\ table = last.pre
       ELSE /\ last.result = [deletedCount |-> 1]
            /\ table = Keep(last.pre, DOMAIN last.pre \ {FirstOf(M)})

\* the same, for tables whose documents carry their record's key as _id
DeleteOneEffectOnKeyedDocs ==
  (\A i \in DOMAIN last.pre :
     IdOf(JSONparse(last.pre[i].data)) = last.pre[i].id) =>
    DeleteOneEffect

----------------------------------------------------------------------------
(* Two collections of one store *)

\* the number of documents the two collections receive
MaxApartUuids == 2

NextApart ==
  \/ \E c \in Collections, d \in DocInputs :
       uuids < MaxApartUuids /\ InsertOne(c, d)
  \/ \E c \in Collections, ds \in BatchInputs :
       uuids + Len(ds) <= MaxApartUuids /\ InsertMany(c, ds, 0)
  \/ \E c \in Collections, q \in QueryInputs, u \in UpdateInputs :
       UpdateOne(c, q, u)
  \/ \E c \in Collections, q \in QueryInputs, u \in UpdateInputs :
       UpdateMany(c, q, u, 0)
  \/ \E c \in Collections, q \in QueryInputs : DeleteOne(c, q)
  \/ \E c \in Collections, q \in QueryInputs : DeleteMany(c, q, 0)
  \/ \E c \in Collections : Find(c, QueryAll, NoOptions)
  \/ ToArray
  \/ Return

\* A caller that writes to and reads from both collections
SpecApart == Init /\ [][NextApart]_vars

\* the records of t that belong to other collections than collectionName
RecordsOutside(t, collectionName) ==
  SelectSeq(t, LAMBDA r : r.collection # collectionName)

\* C36: an operation of a collection leaves the records of every other
\* collection as they were, and the documents toArray() returns are the
\* documents of records of the cursor's own collection
CollectionsApart ==
  /\ last.op # "none" =>
       RecordsOutside(table, last.collection)
         = RecordsOutside(last.pre, last.collection)
  /\ (last.op = "toArray" /\ ~last.threw) =>
       \A j \in DOMAIN last.result.a :
         \E i \in DOMAIN table :
           /\ table[i].collection = cursor.collection
           /\ JSONparse(table[i].data) = last.result.a[j]

\* deleteOne on a collection removed nothing because the matched document
\* carries the key of a record of the other collection, which is still stored
OtherCollectionKept ==
  /\ last.op = "deleteOne" /\ ~last.threw
  /\ last.result = [deletedCount |-> 1]
  /\ table = last.pre
  /\ \E i, j \in DOMAIN table :
       /\ table[i].collection = last.collection
       /\ table[j].collection # last.collection
       /\ IdOf(JSONparse(table[i].data)) = table[j].id

----------------------------------------------------------------------------
(* The counts of overlapping updateOne and deleteOne calls, under SpecCounts *)

\* C37: an updateOne that returns {matchedCount: 1, modifiedCount: 1} has
\* overwritten a record, and a deleteOne that returns {deletedCount: 1} has
\* removed a record that was stored at the time of its DELETE statement
CountsAreEffects ==
  \A p \in Callers :
    (calls[p].pc = "settled" /\ ~calls[p].threw) =>
      /\ (calls[p].op = "updateOne" /\ calls[p].result = UpdateResult(1, 1))
           => calls[p].affected = 1
      /\ (calls[p].op = "deleteOne" /\ calls[p].result = [deletedCount |-> 1])
           => calls[p].affected = 1

----------------------------------------------------------------------------
(* The alarm of the cron object, under SpecCron *)

\* C38: once the constructor has run, after every completed call an alarm
\* is set; it is no later than the schedule.time of any stored task, and
\* with no task stored it is at most 24 hours ahead
AlarmCoversTasks ==
  cron.built =>
    /\ cron.alarm # NoAlarm
    /\ \A i \in DOMAIN listTasks(cron.storage) :
         cron.alarm <= listTasks(cron.storage)[i].schedule.time
    /\ listTasks(cron.storage) = <<>> => cron.alarm <= cron.clock + Day

\* schedule() stored a second task that is due later than the one stored
\* before, and the alarm stayed at the earlier time
AlarmKeptForEarlierTask ==
  /\ cron.call.op = "schedule"
  /\ Len(listTasks(cron.storage)) = 2
  /\ Len(listTasks(cron.call.pre)) = 1
  /\ cron.alarm < cron.call.result.nextExecutionTime
  /\ cron.alarm = listTasks(cron.call.pre)[1].schedule.time

----------------------------------------------------------------------------
(* Calls on the cron object that overlap: a storage call takes effect when  *)
(* it is made, the call that made it is suspended until it resolves, and    *)
(* the steps of other calls run in between                                  *)

\* The cron object and its suspended calls step to c and r
OverlapStep(c, r) ==
  /\ cron' = c
  /\ running' = r
  /\ UNCHANGED <<table, uuids, cursor, last, calls, facade, deploy, upload>>

\* The options of the overlapping calls: a default handler alone, or the
\* prefix 'a' alone
OverlapOptions ==
  {[defaultHandler |-> "defaultHandler", handlers |-> <<>>],
   [defaultHandler |-> NoHandler,
    handlers |-> <<[prefix |-> <<"a">>, handler |-> "handlerA"]>>]}

OverlapIds == {<<"a", "1">>, <<"b">>}

\* cancel() is called at most MaxCancels times
MaxCancels == 1

\* The runtime calls alarm(): now = Date.now() and the task list is read.
\* While alarm() runs getAlarm() gives null in the Workers runtime
\* (cleared); a storage that keeps the time until setAlarm() is allowed too.
AlarmFires(cleared) ==
  /\ CronIdle
  /\ running.alarm.pc = "none"
  /\ cron.alarm # NoAlarm /\ cron.clock >= cron.alarm
  /\ OverlapStep(
       [cron EXCEPT !.alarm = IF cleared THEN NoAlarm ELSE @],
       [running EXCEPT !.alarm =
          [NotRunning.alarm EXCEPT
             !.pc = "getTasksDueBy", !.now = cron.clock,
             !.tasks = getTasksDueBy(cron.storage, cron.clock)]])

RECURSIVE storeUnhandled(_, _, _, _, _, _)
\* The callbacks of the tasks without a handler, from the i-th on, in an
\* alarm() that began at now and runs them at t
storeUnhandled(storage, options, tasks, i, now, t) ==
  IF i > Len(tasks) THEN storage
  ELSE storeUnhandled(
         IF chooseHandler(options, tasks[i].id) = NoHandler
         THEN storagePut(storage, TaskKey(tasks[i].id),
                         Rescheduled(With(tasks[i], "lastExecutedAt", now), t))
         ELSE storage,
         options, tasks, i + 1, now, t)

\* getTasksDueBy resolves: with no due task alarm() reads the next alarm
\* time; otherwise every callback runs to its first await: a task with a
\* handler waits for the handler, a task without one is stored at once
AlarmListed ==
  /\ running.alarm.pc = "getTasksDueBy"
  /\ LET a == running.alarm
         handled(task) == chooseHandler(cron.options, task.id) # NoHandler
     IN IF a.tasks = <<>>
        THEN OverlapStep(cron,
               [running EXCEPT !.alarm =
                  [a EXCEPT !.pc = "setAlarm",
                            !.next = getNextAlarmTime(cron.storage, cron.clock)]])
        ELSE OverlapStep(
               [cron EXCEPT !.storage =
                  storeUnhandled(@, cron.options, a.tasks, 1, a.now, cron.clock)],
               [running EXCEPT !.alarm =
                  [a EXCEPT !.pc = "handlers",
                            !.at = [i \in DOMAIN a.tasks |->
                                      IF handled(a.tasks[i]) THEN "handler"
                                      ELSE "done"],
                            !.current = [i \in DOMAIN a.tasks |-> Null]]])

\* The handler of the i-th task resolves: the task alarm() read is stored
\* with lastExecutedAt and its next time
HandlerReturns(i) ==
  /\ running.alarm.pc = "handlers"
  /\ i \in DOMAIN running.alarm.tasks
  /\ running.alarm.at[i] = "handler"
  /\ OverlapStep(
       [cron EXCEPT !.storage =
          storagePut(@, TaskKey(running.alarm.tasks[i].id),
                     Rescheduled(With(running.alarm.tasks[i], "lastExecutedAt",
                                      running.alarm.now),
                                 cron.clock))],
       [running EXCEPT !.alarm.at[i] = "done"])

\* The handler of the i-th task throws: the error record is stored
HandlerThrows(i) ==
  /\ running.alarm.pc = "handlers"
  /\ i \in DOMAIN running.alarm.tasks
  /\ running.alarm.at[i] = "handler"
  /\ Cardinality(ErrorRecords(cron.storage)) < MaxErrors
  /\ OverlapStep(
       [cron EXCEPT !.storage =
          storagePut(@, ErrorKey(running.alarm.tasks[i].id, cron.clock),
                     [error |-> ErrorText, task |-> running.alarm.tasks[i],
                      timestamp |-> cron.clock])],
       [running EXCEPT !.alarm.at[i] = "recorded"])

\* The failed callback reads the task again
FailedTaskRead(i) ==
  /\ running.alarm.pc = "handlers"
  /\ i \in DOMAIN running.alarm.tasks
  /\ running.alarm.at[i] = "recorded"
  /\ OverlapStep(cron,
       [running EXCEPT
          !.alarm.at[i] = "read",
          !.alarm.current[i] =
             storageGet(cron.storage, TaskKey(running.alarm.tasks[i].id))])

\* The failed callback stores the task it read, if there was one, with the
\* error count and its next time
FailedTaskStored(i) ==
  /\ running.alarm.pc = "handlers"
  /\ i \in DOMAIN running.alarm.tasks
  /\ running.alarm.at[i] = "read"
  /\ LET currentTask == running.alarm.current[i]
     IN OverlapStep(
          IF currentTask = Null THEN cron
          ELSE [cron EXCEPT !.storage =
                  storagePut(@, TaskKey(running.alarm.tasks[i].id),
                    Rescheduled(
                      With(currentTask, "data",
                        With(With(With(currentTask.data,
                                       "_errors", OrZero(currentTask.data, "_errors") + 1),
                                  "_lastErrorAt", cron.clock),
                             "_lastError", ErrorText)),
                      cron.clock))],
          [running EXCEPT !.alarm.at[i] = "done"])

\* Promise.all resolves and getNextAlarmTime() reads the task list
AlarmNextRead ==
  /\ running.alarm.pc = "handlers"
  /\ \A i \in DOMAIN running.alarm.at : running.alarm.at[i] = "done"
  /\ OverlapStep(cron,
       [running EXCEPT !.alarm.pc = "setAlarm",
                       !.alarm.next = getNextAlarmTime(cron.storage, cron.clock)])

\* alarm() sets the alarm to the time it computed and returns
AlarmRearms ==
  /\ running.alarm.pc = "setAlarm"
  /\ OverlapStep([cron EXCEPT !.alarm = running.alarm.next],
                 [running EXCEPT !.alarm = NotRunning.alarm])

\* schedule(cron, { id, data }) is called: the task is stored
ScheduleCalled(cronExpr, id, data) ==
  /\ CronIdle
  /\ running.schedule.pc = "none"
  /\ cron.scheduled < MaxScheduled
  /\ id = <<>> => cron.uuids < MaxCronUuids
  /\ LET task == NewTask(IdOrUuid(id, cron.uuids), cronExpr, data, cron.clock)
     IN OverlapStep(
          [cron EXCEPT !.storage = storagePut(@, TaskKey(task.id), task),
                       !.uuids = IF id = <<>> THEN @ + 1 ELSE @,
                       !.scheduled = @ + 1],
          [running EXCEPT
             !.schedule = [pc |-> "getAlarm", task |-> task, currentAlarm |-> 0,
                           during |-> {running.alarm.pc}],
             !.cancel.rescheduled = @ \/ running.cancel.id = task.id,
             !.cancelled = {c \in @ : c.id # task.id}])

\* schedule() reads the alarm
ScheduleAlarmRead ==
  /\ running.schedule.pc = "getAlarm"
  /\ OverlapStep(cron,
       [running EXCEPT !.schedule.pc = "setAlarm",
                       !.schedule.currentAlarm = cron.alarm,
                       !.schedule.during = @ \cup {running.alarm.pc}])

\* schedule() sets the alarm if none was set or the task is due before it,
\* and returns
ScheduleRearms ==
  /\ running.schedule.pc = "setAlarm"
  /\ LET nextTime == running.schedule.task.schedule.time
         currentAlarm == running.schedule.currentAlarm
     IN OverlapStep(
          [cron EXCEPT !.alarm = IF currentAlarm = NoAlarm \/ nextTime < currentAlarm
                                 THEN nextTime ELSE @],
          [running EXCEPT
             !.schedule = [NotRunning.schedule EXCEPT
                             !.during = running.schedule.during
                                          \cup {running.alarm.pc}]])

\* alarm() is executing the handler of the task id
InHandler(id) ==
  /\ running.alarm.pc = "handlers"
  /\ \E i \in DOMAIN running.alarm.tasks :
       running.alarm.tasks[i].id = id /\ running.alarm.at[i] = "handler"

\* cancel(id) is called: the task is deleted; cancel() returns false if
\* there was none
CancelCalled(id) ==
  /\ CronIdle
  /\ running.cancel.pc = "none"
  /\ running.cancels < MaxCancels
  /\ LET deleted == storageDelete(cron.storage, TaskKey(id))
     IN OverlapStep(
          [cron EXCEPT !.storage = deleted.storage],
          [running EXCEPT
             !.cancels = @ + 1,
             !.cancel = IF deleted.exists
                        THEN [pc |-> "getNextAlarmTime", id |-> id,
                              exists |-> TRUE, next |-> 0, rescheduled |-> FALSE,
                              inHandler |-> InHandler(id)]
                        ELSE NotRunning.cancel])

\* getNextAlarmTime() of cancel() reads the task list
CancelNextRead ==
  /\ running.cancel.pc = "getNextAlarmTime"
  /\ OverlapStep(cron,
       [running EXCEPT !.cancel.pc = "setAlarm",
                       !.cancel.inHandler = @ /\ InHandler(running.cancel.id),
                       !.cancel.next = getNextAlarmTime(cron.storage, cron.clock)])

\* cancel() sets the alarm and returns true: its id is cancelled from now
\* on, unless schedule() was called with it since the task was deleted;
\* inHandler tells that alarm() was executing the handler of the task at
\* every step of cancel()
CancelRearms ==
  /\ running.cancel.pc = "setAlarm"
  /\ OverlapStep([cron EXCEPT !.alarm = running.cancel.next],
                 [running EXCEPT !.cancel = NotRunning.cancel,
                                 !.cancelled =
                                    IF running.cancel.rescheduled THEN @
                                    ELSE @ \cup
                                      {[id |-> running.cancel.id,
                                        inHandler |->
                                          /\ running.cancel.inHandler
                                          /\ InHandler(running.cancel.id)]}])

\* A minute passes, also while calls are suspended
Minute ==
  /\ cron.built
  /\ cron.clock < MaxClock
  /\ OverlapStep([cron EXCEPT !.clock = @ + 1], running)

AlarmSteps ==
  \/ \E cleared \in BOOLEAN : AlarmFires(cleared)
  \/ AlarmListed
  \/ \E i \in 1..MaxScheduled : HandlerReturns(i)
  \/ \E i \in 1..MaxScheduled : HandlerThrows(i)
  \/ \E i \in 1..MaxScheduled : FailedTaskRead(i)
  \/ \E i \in 1..MaxScheduled : FailedTaskStored(i)
  \/ AlarmNextRead
  \/ AlarmRearms

ScheduleSteps ==
  \/ \E e \in CronInputs, id \in OverlapIds : ScheduleCalled(e, id, NoData)
  \/ ScheduleAlarmRead
  \/ ScheduleRearms

CancelSteps ==
  \/ \E id \in OverlapIds : CancelCalled(id)
  \/ CancelNextRead
  \/ CancelRearms

NextScheduleOverlap ==
  \/ \E o \in OverlapOptions : Construct(o)
  \/ Minute
  \/ AlarmSteps
  \/ ScheduleSteps

\* One cron object whose alarm() and schedule() calls overlap
SpecScheduleOverlap == Init /\ [][NextScheduleOverlap]_vars

\* schedule() is called while no alarm() and no cancel() is running
ScheduleCalledAlone(cronExpr, id, data) ==
  /\ running.alarm.pc = "none"
  /\ running.cancel.pc = "none"
  /\ ScheduleCalled(cronExpr, id, data)

NextCancelOverlap ==
  \/ \E o \in OverlapOptions : Construct(o)
  \/ Minute
  \/ AlarmSteps
  \/ \E e \in CronInputs, id \in OverlapIds : ScheduleCalledAlone(e, id, NoData)
  \/ ScheduleAlarmRead
  \/ ScheduleRearms
  \/ CancelSteps

\* One cron object whose alarm() and cancel() calls overlap
SpecCancelOverlap == Init /\ [][NextCancelOverlap]_vars

\* No call on the cron object is suspended
Quiescent ==
  /\ cron.built
  /\ running.alarm.pc = "none"
  /\ running.schedule.pc = "none"
  /\ running.cancel.pc = "none"

\* The last schedule() made its three steps while alarm() was running:
\* running.schedule.during holds where alarm() was at each of them
ScheduledDuringAlarm ==
  /\ running.schedule.during # {}
  /\ "none" \notin running.schedule.during

\* The last schedule() made its three steps before alarm() read the task
\* list for the alarm time it sets
ScheduledDuringHandlers ==
  /\ running.schedule.during # {}
  /\ running.schedule.during \subseteq {"getTasksDueBy", "handlers"}

\* An alarm is set and it is no later than the schedule.time of any stored
\* task
AlarmBound ==
  /\ cron.alarm # NoAlarm
  /\ \A i \in DOMAIN listTasks(cron.storage) :
       cron.alarm <= listTasks(cron.storage)[i].schedule.time

\* C39: if schedule() stored its task and set the alarm while alarm() was
\* between reading the task list and setting the alarm, then once both have
\* finished an alarm is set and it is no later than the schedule.time of
\* any stored task, the new one included
AlarmCoversTasksAfterOverlap ==
  Quiescent /\ ScheduledDuringAlarm => AlarmBound

\* The bound does hold for a schedule() that finished before alarm() read
\* the task list for the alarm time it sets
AlarmCoversTaskScheduledDuringHandlers ==
  Quiescent /\ ScheduledDuringHandlers => AlarmBound

\* A task that cancel() has returned true for is not stored, until
\* schedule() is called with its id
CancelledStaysCancelled ==
  \A c \in running.cancelled : getTask(cron.storage, c.id) = Null

\* C40: a task that cancel() has returned true for, cancelled while
\* alarm() was executing its handler, is not stored again until schedule()
\* is called with its id
CancelledInHandlerStaysCancelled ==
  \A c \in running.cancelled :
     c.inHandler => getTask(cron.storage, c.id) = Null

====
